---- MODULE Spec2Model ----
(***************************************************************************)
(* Slack/Dify bots and CSV batch tools of ops-app-repo.                    *)
(*                                                                         *)
(* The repository is a set of standalone scripts.  Each specification      *)
(* below runs one kind of script:                                          *)
(*   SpecSplit  the message splitters (splitMessage)                       *)
(*   SpecCsv    the CSV chunkers of the Dify/Notion converters             *)
(*   SpecHist   the category-history tracker (updateCategoryHistory)        *)
(*   SpecBots   one of the four Slack bots (ops_dev, slack-dify-ops-bot,   *)
(*              slack-dify-operator, slack-dify-mso-chatflow) handling a   *)
(*              few event deliveries concurrently                          *)
(*   SpecRetry  fetchWithRateLimitRetry                                    *)
(*   SpecStream one streamed exchange of ops_dev, ops-bot or operator      *)
(*   SpecDelivery  the final answer sent in parts                          *)
(*   SpecExpiry the expiring conversation map of part_005                  *)
(*   SpecContent  getContentRecursively and its page loop                  *)
(*   SpecFlatten  the export of Slack rows and their flattening            *)
(*   SpecUpload the delete-then-create uploader                            *)
(*   SpecScan   splitMessage over a text of 10,000 bytes                   *)
(*   SpecStart  the environment check at the start of a script             *)
(*   SpecPoll   callDifyChatApi with its poll of the parent thread         *)
(*   SpecSse    the read loop of the streamed response, chunk by chunk     *)
(*   SpecExport the export of a channel with its thread replies            *)
(*   SpecBatch  the batch pipelines over their list of targets             *)
(*   SpecMore   the clicks on the button of a long answer                  *)
(* The variables of the scripts a specification does not run keep their    *)
(* initial values.                                                         *)
(***************************************************************************)
EXTENDS Integers, Sequences, FiniteSets, TLC

VARIABLES
    \* --- message splitter ---
    splitVariant,        \* which splitMessage is run: "bytes" or "chars"
    text,                \* its argument: a JS string, a sequence of UTF-16 code units
    maxBytes,            \* its second argument (maxBytes / maxLength)
    messages,            \* its result: a sequence of strings
    splitPc,             \* "input" before the call, "done" after it
    \* --- CSV chunker ---
    csvVariant,          \* which converter is run
    transformedData,     \* the rows to chunk: the serialized byte size of each row
    ceiling,             \* MAX_BYTES_PER_FILE of the run (scaled down)
    csvParts,            \* the parts produced: each a sequence of row indices
    csvPc,               \* "input" before the call, "done" after it
    \* --- category history ---
    userCategoryHistory, \* userId -> list of categories
    applied,             \* userId -> the categories passed to updateCategoryHistory so far
    \* --- the bots ---
    bot,                 \* the script that runs
    task,                \* delivery -> the handler invocation it started (locals and position)
    difyCalls,           \* delivery -> number of POST /v1/chat-messages it has sent
    nextConversation,    \* the next conversation id the chat API hands out
    processingUsers,     \* ops_dev: keys of the consultations in progress
    errorHandledMessages, \* ops_dev: keys whose error was reported
    errorTimers,         \* ops_dev: key -> pending 30 s timers deleting it from errorHandledMessages
    processedEventIds,   \* ops-bot: keys of the events seen in the last 60 s
    guardTimers,         \* ops-bot: keys with a pending 60 s timer
    userConversations,   \* ops_dev: userId -> conversation id (0: no entry)
    conversationStore,   \* ops-bot: channel-thread -> conversation id
    conversationMap,     \* operator: thread -> conversation id
    convMap,             \* mso-chatflow: thread -> conversation id
    guardOwner,          \* history: key -> the delivery that inserted the key now in the guard set
    dupOf,               \* history: delivery -> the delivery whose key suppressed it
    lastWriter,          \* history: conversation key -> the delivery that wrote the map last
    \* --- fetchWithRateLimitRetry ---
    retryPc,             \* position of the call: idle, fetch, sleep, returned, thrown
    attempt,             \* its local attempt
    fetches,             \* history: the requests sent
    responses,           \* history: the responses received, [status, retryAfter]
    slept,               \* history: the delays passed to setTimeout, in ms
    \* --- one streamed exchange (ops_dev, ops-bot, operator) ---
    streamVariant,       \* the program that runs the exchange
    streamInput,         \* the lines the chat API streams, in order
    streamStatus,        \* the response: ok, error (status outside 2xx), broken (read fails)
    streamPc,            \* position of the handler
    streamRead,          \* number of lines taken from the stream
    answerBuffer,        \* fullAnswer / messageBuffer: the lines whose answer was appended
    streamConversation,  \* the conversation id recorded from the stream (0: none)
    now,                 \* Date.now(), in ticks of 1000 ms
    lastUpdateTime,      \* the local lastUpdateTime
    lastUpdateText,      \* ops-bot: the local lastUpdateText
    streamParentDeleted, \* ops-bot: the local parentDeleted
    errorHandled,        \* ops_dev: the key of the message is in errorHandledMessages
    postMessagePromise,  \* operator: none, pending, resolved
    slackInitialSent,    \* operator: the initial message has a ts
    inflight,            \* operator: chat.update calls sent and not yet applied
    slackCalls,          \* history: the Slack calls issued on the answer message
    slackFailed,         \* history: a Slack call of the exchange was rejected
    display,             \* what the answer message shows
    \* --- the final answer sent in parts (ops-bot, sendLongMessage, slack-messages-get) ---
    deliveryVariant,     \* the program that sends the answer
    deliveryPc,          \* position of the handler
    chatRequests,        \* history: the requests sent to the chat API for the event
    streamResult,        \* slack-messages-get: how attemptStreaming ended
    partCount,           \* messages.length / parts.length
    partIndex,           \* the part to send next, counted from 1
    pendingMessage,      \* what the placeholder message shows
    threadMessages,      \* the messages posted to the thread after the placeholder
    postFailed,          \* history: a Slack call of the handler was rejected
    \* --- the expiring conversation map (part_005) ---
    expiringConvMap,     \* thread_ts -> [conversation_id, updatedAt], or NoEntry
    clock,               \* Date.now(), in ticks of half an hour
    mentionPc,           \* thread_ts -> position of the app_mention handler for it
    sweepsDue,           \* expirations of the setInterval timer not yet run
    removedLog           \* history: the entries the sweep has deleted, with their age

guardVars == <<processingUsers, errorHandledMessages, errorTimers,
               processedEventIds, guardTimers>>
mapVars == <<userConversations, conversationStore, conversationMap, convMap>>
difyVars == <<difyCalls, nextConversation>>
historyVars == <<guardOwner, dupOf, lastWriter>>
botVars == <<bot, task, difyVars, guardVars, mapVars, historyVars>>

retryVars == <<retryPc, attempt, fetches, responses, slept>>
streamVars == <<streamVariant, streamInput, streamStatus, streamPc, streamRead,
                answerBuffer, streamConversation, now, lastUpdateTime,
                lastUpdateText, streamParentDeleted, errorHandled,
                postMessagePromise, slackInitialSent, inflight, slackCalls,
                slackFailed, display>>
deliveryVars == <<deliveryVariant, deliveryPc, chatRequests, streamResult, partCount,
                  partIndex, pendingMessage, threadMessages, postFailed>>
expiryVars == <<expiringConvMap, clock, mentionPc, sweepsDue, removedLog>>
\* --- getContentRecursively and its page loop (notionDB-get) ---
\* contentPc: position of the page loop; pagesLeft: pages the database may
\* still give; visited: the Set of the current top-level page; callStack: the
\* calls that have not returned; listings: id -> listings of its children
\* started for the current top-level page; skipped: a call returned the skip
\* marker
VARIABLES contentPc, pagesLeft, visited, callStack, listings, skipped

contentVars == <<contentPc, pagesLeft, visited, callStack, listings, skipped>>

\* --- the Slack rows flattened into parent/child records (slack-to-difyKnowledge) ---
\* flattenPc: position of the run; flattenVariant: the converter used;
\* writtenMessages: the Set of the exporter; slackRows: the rows written to
\* the CSV; flattened: transformedData of the converter
VARIABLES flattenPc, flattenVariant, writtenMessages, slackRows, flattened

flattenVars == <<flattenPc, flattenVariant, writtenMessages, slackRows, flattened>>

\* --- the delete-then-create uploader (part_002, part_013) ---
\* uploadPc: position of the uploader; documents: ids of the documents of the
\* knowledge base that have the file name; nextDoc: the id the next created
\* document gets; uploads: calls of the uploader so far; existingDocs: what
\* findDocumentsInDify returned; existedBefore: history, the
\* documents with the name when the uploader was called; difyRequests:
\* history, the requests of the current call in the order they were issued
VARIABLES uploadPc, documents, nextDoc, uploads, existingDocs, existedBefore, difyRequests

uploadVars == <<uploadPc, documents, nextDoc, uploads, existingDocs, existedBefore, difyRequests>>

\* --- splitMessage run over a long text, char by char (part_003) ---
\* scanPc: position of the loop; scannedBytes: UTF-8 bytes of the chars taken
\* so far; scanBufferBytes: the local bufferBytes; scanResult: result.length;
\* scanKinds: history, the UTF-8 lengths of the chars met
VARIABLES scanPc, scannedBytes, scanBufferBytes, scanResult, scanKinds

scanVars == <<scanPc, scannedBytes, scanBufferBytes, scanResult, scanKinds>>

\* --- the start of a script (part_013, 1_notionDB-get.js, part_004) ---
\* startScript: the script; startPc: its position; environment: the variables
\* that are set; asMain: require.main === module; argv: the number of command
\* line arguments; apiRequests: requests sent to Notion or the hosted API
VARIABLES startScript, startPc, environment, asMain, argv, apiRequests

startVars == <<startScript, startPc, environment, asMain, argv, apiRequests>>

\* --- callDifyChatApi with its poll of the parent thread (ops-bot, part_003) ---
\* pollVariant: the program; callPc: position of callDifyChatApi;
\* parentDeleted: its local flag; threadGone: the parent message is deleted;
\* pollInFlight: a conversations.replies request of the poll is not answered
\* yet; pollTimer: the timeout / interval is armed or not; chunksLeft: chunks
\* the stream still gives; partsLeft: parts of the answer still to post;
\* detected: history, the function has detected the deletion;
\* postedAfterDetection: history, a chat.postMessage or chat.update was issued
\* after that; polledAfterReturn: history, a poll was sent after the return
VARIABLES pollVariant, callPc, parentDeleted, threadGone, pollInFlight, pollTimer, chunksLeft, partsLeft, detected, postedAfterDetection, polledAfterReturn

pollVars == <<pollVariant, callPc, parentDeleted, threadGone, pollInFlight, pollTimer, chunksLeft, partsLeft, detected, postedAfterDetection, polledAfterReturn>>

\* --- the stream of data lines read chunk by chunk (ops_dev, ops-bot,
\* slack-messages-get, part_011) ---
\* ssePc: position of the read loop; sseAnswers: history, the answer fields
\* of the data events the server sent, in order; sseBytes: the part of the
\* response not yet delivered; sseAccumulated: the local fullAnswer, as the
\* sequence of the fragments appended
VARIABLES ssePc, sseAnswers, sseBytes, sseAccumulated

sseVars == <<ssePc, sseAnswers, sseBytes, sseAccumulated>>

\* --- the export of a channel with its thread replies (1_slack-message-get.js) ---
\* exportPc: position of the export; historyPages: pages of
\* conversations.history fetched; writtenTs: the Set writtenMessages;
\* csvRows: the ts of the rows written to the CSV, in order; replyFetcher:
\* per thread, the state of its task under pLimit(3); replyPages: pages of
\* conversations.replies fetched; historyRows: history,
\* the number of rows the pass over the history wrote; returnedAgain:
\* history, a response of conversations.replies has held a ts that the pass
\* over the history had written, while three tasks were running
VARIABLES exportPc, historyPages, writtenTs, csvRows, replyFetcher, replyPages,
          historyRows, returnedAgain

exportVars == <<exportPc, historyPages, writtenTs, csvRows, replyFetcher, replyPages,
                historyRows, returnedAgain>>

\* --- the batch over the list of targets (main-processor.js,
\* knowledgeForNotion, part_010) ---
\* batchVariant: the pipeline; batchPc: position in the loop body;
\* batchTargets: the list, per target whether it has all required fields;
\* batchIndex: the target of the current iteration; partsToUpload: files
\* still to upload for it; attempted: history, the targets whose try block
\* was entered, in order; failures: history, the targets whose try block
\* threw
VARIABLES batchVariant, batchPc, batchTargets, batchIndex, partsToUpload, attempted, failures

batchVars == <<batchVariant, batchPc, batchTargets, batchIndex, partsToUpload, attempted, failures>>

\* --- the show_more_continuation handler (part_001, Coupa/test_1.js) ---
\* morePc: whether the entry was made; moreParts: history, the number of
\* parts the entry held at first; hasEntry: pendingContinuations has the
\* key; remainingParts: the array of the entry, shared by every handler
\* that read it; clickPc: per click, the position of its handler;
\* clickPart: per click, its nextPart (0: none); postCalls: history, the
\* parts passed to chat.postMessage, in order; postedParts: history, the
\* parts whose post succeeded; overlapped: history, a click was handled
\* while the post of another was in flight
VARIABLES morePc, moreParts, hasEntry, remainingParts, clickPc, clickPart, postCalls, postedParts, overlapped

moreVars == <<morePc, moreParts, hasEntry, remainingParts, clickPc, clickPart, postCalls, postedParts, overlapped>>

laterVars == <<expiryVars, contentVars, flattenVars, uploadVars, scanVars, startVars, pollVars, sseVars, exportVars, batchVars, moreVars>>
toolVars == <<retryVars, streamVars, deliveryVars, laterVars>>

vars == <<splitVariant, text, maxBytes, messages, splitPc,
          csvVariant, transformedData, ceiling, csvParts, csvPc,
          userCategoryHistory, applied, botVars, toolVars>>

splitVars == <<splitVariant, text, maxBytes, messages, splitPc>>
csvVars == <<csvVariant, transformedData, ceiling, csvParts, csvPc>>
histVars == <<userCategoryHistory, applied>>

\* what each of the later specifications leaves alone
exceptExpiry ==
    <<splitVars, csvVars, histVars, botVars, retryVars, streamVars, deliveryVars,
      contentVars, flattenVars, uploadVars, scanVars, startVars, pollVars, sseVars, exportVars, batchVars, moreVars>>

exceptContent ==
    <<splitVars, csvVars, histVars, botVars, retryVars, streamVars, deliveryVars,
      expiryVars, flattenVars, uploadVars, scanVars, startVars, pollVars, sseVars, exportVars, batchVars, moreVars>>

exceptFlatten ==
    <<splitVars, csvVars, histVars, botVars, retryVars, streamVars, deliveryVars,
      expiryVars, contentVars, uploadVars, scanVars, startVars, pollVars, sseVars, exportVars, batchVars, moreVars>>

exceptUpload ==
    <<splitVars, csvVars, histVars, botVars, retryVars, streamVars, deliveryVars,
      expiryVars, contentVars, flattenVars, scanVars, startVars, pollVars, sseVars, exportVars, batchVars, moreVars>>

exceptScan ==
    <<splitVars, csvVars, histVars, botVars, retryVars, streamVars, deliveryVars,
      expiryVars, contentVars, flattenVars, uploadVars, startVars, pollVars, sseVars, exportVars, batchVars, moreVars>>

exceptStart ==
    <<splitVars, csvVars, histVars, botVars, retryVars, streamVars, deliveryVars,
      expiryVars, contentVars, flattenVars, uploadVars, scanVars, pollVars, sseVars, exportVars, batchVars, moreVars>>

exceptPoll ==
    <<splitVars, csvVars, histVars, botVars, retryVars, streamVars, deliveryVars,
      expiryVars, contentVars, flattenVars, uploadVars, scanVars, startVars, sseVars, exportVars, batchVars, moreVars>>

exceptSse ==
    <<splitVars, csvVars, histVars, botVars, retryVars, streamVars, deliveryVars,
      expiryVars, contentVars, flattenVars, uploadVars, scanVars, startVars, pollVars, exportVars, batchVars, moreVars>>

exceptExport ==
    <<splitVars, csvVars, histVars, botVars, retryVars, streamVars, deliveryVars,
      expiryVars, contentVars, flattenVars, uploadVars, scanVars, startVars, pollVars, sseVars, batchVars, moreVars>>

exceptBatch ==
    <<splitVars, csvVars, histVars, botVars, retryVars, streamVars, deliveryVars,
      expiryVars, contentVars, flattenVars, uploadVars, scanVars, startVars, pollVars, sseVars, exportVars, moreVars>>

exceptMore ==
    <<splitVars, csvVars, histVars, botVars, retryVars, streamVars, deliveryVars,
      expiryVars, contentVars, flattenVars, uploadVars, scanVars, startVars, pollVars, sseVars, exportVars, batchVars>>

(***************************************************************************)
(* Bounds                                                                  *)
(***************************************************************************)
MaxLen == 4          \* longest text given to a splitter, in UTF-16 code units
MaxMax == 5          \* largest maxBytes / maxLength tried
MaxRows == 4         \* most rows given to a chunker
MaxRowBytes == 4     \* largest serialized row
MaxCeiling == 6      \* largest ceiling tried
MaxUpdates == 5      \* category updates applied in one run
MaxDeliveries == 2   \* event deliveries handled by a bot in one run
MaxRetryAfter == 2   \* largest retry-after header, in seconds
MaxLines == 3        \* most lines in one streamed response
MaxTicks == 3        \* clock ticks (of 1000 ms) passing during one exchange
MaxParts == 3        \* most parts a final answer is split into
MaxClock == 5        \* half hours passing in one run of the expiring map

(***************************************************************************)
(* Helpers                                                                 *)
(***************************************************************************)
Max(S) == CHOOSE x \in S : \A y \in S : y <= x

RECURSIVE Sum(_)
Sum(s) == IF s = <<>> THEN 0 ELSE Head(s) + Sum(Tail(s))

RECURSIVE Flatten(_)
Flatten(ss) == IF ss = <<>> THEN <<>> ELSE Head(ss) \o Flatten(Tail(ss))

SeqsUpTo(S, n) == UNION {[1..k -> S] : k \in 0..n}

(***************************************************************************)
(* JS strings.  A string is a sequence of UTF-16 code units.  The units    *)
(* of the model: an ASCII letter, a newline, a 2-byte letter, the          *)
(* ideographic full stop, and the two halves of a surrogate pair (which    *)
(* may also occur alone).                                                  *)
(***************************************************************************)
Units == {"a", "nl", "e", "maru", "hi", "lo"}

\* the iteration `for (const char of text)`: by code point, a high
\* surrogate followed by a low one being a single char
RECURSIVE CodePoints(_)
CodePoints(s) ==
    IF s = <<>> THEN <<>>
    ELSE IF Len(s) >= 2 /\ s[1] = "hi" /\ s[2] = "lo"
         THEN <<SubSeq(s, 1, 2)>> \o CodePoints(SubSeq(s, 3, Len(s)))
         ELSE <<SubSeq(s, 1, 1)>> \o CodePoints(Tail(s))

\* UTF-8 size of one code point; a lone surrogate is encoded as U+FFFD
CharBytes(char) ==
    IF Len(char) = 2 THEN 4
    ELSE CASE char[1] = "a" -> 1
           [] char[1] = "nl" -> 1
           [] char[1] = "e" -> 2
           [] OTHER -> 3

\* Buffer.byteLength(str, 'utf8')
byteLength(str) ==
    LET cps == CodePoints(str)
    IN Sum([i \in 1..Len(cps) |-> CharBytes(cps[i])])

\* String.prototype.substring(from, to), 0-based, from <= to <= length
substring(str, from, to) == SubSeq(str, from + 1, to)

\* String.prototype.lastIndexOf(ch, fromIndex), 0-based, -1 when absent
lastIndexOf(str, ch, fromIndex) ==
    LET hits == {i \in 0..(Len(str) - 1) : i <= fromIndex /\ str[i + 1] = ch}
    IN IF hits = {} THEN -1 ELSE Max(hits)

(***************************************************************************)
(* splitMessage(text, maxBytes) of the ops bot: split by UTF-8 byte count  *)
(***************************************************************************)
\* splitLoop with the char that fills the buffer left out of the next one
RECURSIVE splitLoop_dropChar(_, _, _, _, _)
splitLoop_dropChar(chars, limit, result, buffer, bufferBytes) ==
    IF chars = <<>>
    THEN IF buffer # <<>> THEN Append(result, buffer) ELSE result
    ELSE LET char == Head(chars)
             charBytes == CharBytes(char)
             full == bufferBytes + charBytes > limit
         IN splitLoop_dropChar(Tail(chars), limit,
                      IF full THEN Append(result, buffer) ELSE result,
                      IF full THEN <<>> ELSE buffer \o char,
                      IF full THEN 0 ELSE bufferBytes + charBytes)

\* splitLoop testing the buffer before the char is counted
RECURSIVE splitLoop_lateCheck(_, _, _, _, _)
splitLoop_lateCheck(chars, limit, result, buffer, bufferBytes) ==
    IF chars = <<>>
    THEN IF buffer # <<>> THEN Append(result, buffer) ELSE result
    ELSE LET char == Head(chars)
             charBytes == CharBytes(char)
             full == bufferBytes > limit
         IN splitLoop_lateCheck(Tail(chars), limit,
                      IF full THEN Append(result, buffer) ELSE result,
                      (IF full THEN <<>> ELSE buffer) \o char,
                      (IF full THEN 0 ELSE bufferBytes) + charBytes)

RECURSIVE splitLoop(_, _, _, _, _)
splitLoop(chars, limit, result, buffer, bufferBytes) ==
    IF chars = <<>>
    THEN IF buffer # <<>> THEN Append(result, buffer) ELSE result
    ELSE LET char == Head(chars)
             charBytes == CharBytes(char)
             full == bufferBytes + charBytes > limit
         IN splitLoop(Tail(chars), limit,
                      IF full THEN Append(result, buffer) ELSE result,
                      (IF full THEN <<>> ELSE buffer) \o char,
                      (IF full THEN 0 ELSE bufferBytes) + charBytes)

splitMessage(str, limit) == splitLoop(CodePoints(str), limit, <<>>, <<>>, 0)

(***************************************************************************)
(* splitMessage(text, maxLength) of the hybrid bot: split by string        *)
(* length, preferring a newline or a full stop as the split position       *)
(***************************************************************************)
RECURSIVE splitLoopApp(_, _, _, _)
splitLoopApp(str, maxLength, currentIndex, result) ==
    IF currentIndex >= Len(str) THEN result
    ELSE LET endIndex == currentIndex + maxLength
         IN IF endIndex >= Len(str)
            THEN Append(result, substring(str, currentIndex, Len(str)))
            ELSE LET atNewline == lastIndexOf(str, "nl", endIndex)
                     atStop == IF atNewline <= currentIndex
                               THEN lastIndexOf(str, "maru", endIndex) + 1
                               ELSE atNewline
                     splitPos == IF atStop <= currentIndex THEN endIndex ELSE atStop
                 IN splitLoopApp(str, maxLength, splitPos,
                                 Append(result, substring(str, currentIndex, splitPos)))

splitMessage_app(str, maxLength) ==
    IF Len(str) <= maxLength THEN <<str>>
    ELSE splitLoopApp(str, maxLength, 0, <<>>)

(***************************************************************************)
(* The splitter run                                                        *)
(***************************************************************************)
SplitIdle ==
    /\ splitVariant = "none"
    /\ text = <<>>
    /\ maxBytes = 0
    /\ messages = <<>>
    /\ splitPc = "idle"

CallSplitMessage ==
    /\ splitPc = "input"
    /\ splitVariant = "bytes"
    /\ messages' = splitMessage(text, maxBytes)
    /\ splitPc' = "done"
    /\ UNCHANGED <<splitVariant, text, maxBytes, csvVars, histVars, botVars, toolVars>>

CallSplitMessageApp ==
    /\ splitPc = "input"
    /\ splitVariant = "chars"
    /\ messages' = splitMessage_app(text, maxBytes)
    /\ splitPc' = "done"
    /\ UNCHANGED <<splitVariant, text, maxBytes, csvVars, histVars, botVars, toolVars>>

(***************************************************************************)
(* The CSV chunkers.  A row is known by its index in transformedData and   *)
(* by the byte size of its serialization; a part is the list of the rows   *)
(* written to it, serialized as the header line followed by the rows.      *)
(***************************************************************************)
headerByteSize == 2   \* Buffer.byteLength of the header line (scaled down)

\* chunkLoop losing the row that closes a part
RECURSIVE chunkLoop_dropRow(_, _, _, _, _, _, _)
chunkLoop_dropRow(sizes, i, limit, startSize, parts, currentRows, currentByteSize) ==
    IF i > Len(sizes)
    THEN IF Len(currentRows) > 0 THEN Append(parts, currentRows) ELSE parts
    ELSE LET rowByteSize == sizes[i]
             flush == currentByteSize + rowByteSize > limit /\ Len(currentRows) > 0
         IN chunkLoop_dropRow(sizes, i + 1, limit, startSize,
                      IF flush THEN Append(parts, currentRows) ELSE parts,
                      IF flush THEN <<>> ELSE Append(currentRows, i),
                      IF flush THEN startSize ELSE currentByteSize + rowByteSize)

\* the chunking loop shared by the converters; startSize is the size a new
\* part starts with
RECURSIVE chunkLoop(_, _, _, _, _, _, _)
chunkLoop(sizes, i, limit, startSize, parts, currentRows, currentByteSize) ==
    IF i > Len(sizes)
    THEN IF Len(currentRows) > 0 THEN Append(parts, currentRows) ELSE parts
    ELSE LET rowByteSize == sizes[i]
             flush == currentByteSize + rowByteSize > limit /\ Len(currentRows) > 0
         IN chunkLoop(sizes, i + 1, limit, startSize,
                      IF flush THEN Append(parts, currentRows) ELSE parts,
                      Append(IF flush THEN <<>> ELSE currentRows, i),
                      (IF flush THEN startSize ELSE currentByteSize) + rowByteSize)

convertCsvStringToDifyReadyCsvString(sizes, limit) ==
    IF Len(sizes) = 0 THEN <<>>
    ELSE chunkLoop(sizes, 1, limit, headerByteSize, <<>>, <<>>, headerByteSize)

\* 2_slack-to-dify-converter.js, part_012, part_004: the size of a part
\* starts at the size of the header.
\* slack-messages-knowledgeForNotion/index.js, message_count.js: the size
\* of a part starts at 0
processCsvFile(sizes, limit) == chunkLoop(sizes, 1, limit, 0, <<>>, <<>>, 0)

\* the serialized size of a part: stringify(rows, {header: true})
PartBytes(part) ==
    headerByteSize + Sum([k \in 1..Len(part) |-> transformedData[part[k]]])

CsvIdle ==
    /\ csvVariant = "none"
    /\ transformedData = <<>>
    /\ ceiling = 0
    /\ csvParts = <<>>
    /\ csvPc = "idle"

CallConvert ==
    /\ csvPc = "input"
    /\ csvVariant = "dify"
    /\ csvParts' = convertCsvStringToDifyReadyCsvString(transformedData, ceiling)
    /\ csvPc' = "done"
    /\ UNCHANGED <<csvVariant, transformedData, ceiling, splitVars, histVars, botVars, toolVars>>

CallProcessCsvFile ==
    /\ csvPc = "input"
    /\ csvVariant = "notion"
    /\ csvParts' = processCsvFile(transformedData, ceiling)
    /\ csvPc' = "done"
    /\ UNCHANGED <<csvVariant, transformedData, ceiling, splitVars, histVars, botVars, toolVars>>

(***************************************************************************)
(* Category history                                                        *)
(***************************************************************************)
Users == {"U1", "U2"}
CONSULTATION_CATEGORIES == {"FP&A", "Accounting", "Legal", "IT"}

includes(history, x) == \E i \in 1..Len(history) : history[i] = x

\* updateCategoryHistory without the duplicate test
updateCategoryHistory_noDedup(store, userId, newCategory) ==
    LET pushed == Append(store[userId], newCategory)
    IN [store EXCEPT ![userId] = IF Len(pushed) > 3 THEN Tail(pushed) ELSE pushed]

\* the history stored for userId after updateCategoryHistory(userId, newCategory)
updateCategoryHistory(store, userId, newCategory) ==
    LET history == store[userId]
    IN IF ~includes(history, newCategory)
       THEN LET pushed == Append(history, newCategory)
            IN [store EXCEPT ![userId] =
                   IF Len(pushed) > 3 THEN Tail(pushed) ELSE pushed]
       ELSE store

HistIdle ==
    /\ userCategoryHistory = [u \in Users |-> <<>>]
    /\ applied = [u \in Users |-> <<>>]

UpdateCategory(u, c) ==
    /\ Sum([i \in 1..2 |-> Len(applied[IF i = 1 THEN "U1" ELSE "U2"])]) < MaxUpdates
    /\ userCategoryHistory' = updateCategoryHistory(userCategoryHistory, u, c)
    /\ applied' = [applied EXCEPT ![u] = Append(@, c)]
    /\ UNCHANGED <<splitVars, csvVars, botVars, toolVars>>

(***************************************************************************)
(* The bots.  A run delivers up to MaxDeliveries Slack events to one bot;  *)
(* every delivery starts a handler, and the handlers interleave at their   *)
(* awaits.  Two deliveries may carry the same event (Slack delivers at     *)
(* least once).                                                            *)
(***************************************************************************)
Deliveries == 1..MaxDeliveries
Threads == {"T1", "T2"}
Bots == {"ops_dev", "coupa", "ops_bot", "operator", "mso"}

\* The events of a run: three messages of one user in one thread.  kind is
\* how ops_dev receives the event: as a message that mentions the bot (text
\* is what is left when the mention is removed and the rest trimmed), or
\* as a click on the button of the form.  The thread-keyed bots receive
\* every event as a mention and treat all texts alike; the first two
\* events are enough for them.
EVENT ==
    <<[user |-> "U1", ts |-> 1, text |-> "q1", thread |-> "T1",
       kind |-> "message", category |-> "IT"],
      [user |-> "U1", ts |-> 2, text |-> "q2", thread |-> "T1",
       kind |-> "submit", category |-> "Legal"],
      [user |-> "U1", ts |-> 3, text |-> "soudan", thread |-> "T1",
       kind |-> "message", category |-> "IT"]>>
Events == 1..Len(EVENT)
Mentions == {e \in Events : EVENT[e].text \in {"q1", "q2"}}

\* ops_dev: `${userId}-${messageTs}-${contentHash}`
userKey(e) == <<EVENT[e].user, EVENT[e].ts, EVENT[e].text>>
\* ops-bot: `${body.event.user}-${body.event.ts}`
deduplicationKey(e) == <<EVENT[e].user, EVENT[e].ts>>

NoTask ==
    [pc |-> "idle", ev |-> 0,
     conversationId |-> 0,      \* the id read from the map and sent (0: "")
     received |-> 0,            \* the id taken from the response (0: none)
     placeholder |-> "none",    \* the "generating..." message: none, posted, failed, deleted
     parentDeleted |-> FALSE,   \* ops-bot: deletion of the parent thread detected
     route |-> "none",          \* app.message: what the text was taken for
     form |-> 0,                \* Block Kit forms the handler has posted
     stream |-> <<>>,           \* the lines of the response not yet read
     fullAnswer |-> 0]          \* number of answer fragments accumulated

Terminal == {"skipped", "returned", "unhandled"}
Finished(d) == task[d].pc \in Terminal

\* a handler ends (returned, or "unhandled": it threw): its locals are gone;
\* the id it received and the fate of its placeholder are kept as history
Leave(t, pc) ==
    [t EXCEPT !.pc = pc, !.conversationId = 0, !.stream = <<>>, !.fullAnswer = 0,
              !.parentDeleted = FALSE]

\* deliveries start in order
CanStart(d) ==
    /\ task[d].pc = "idle"
    /\ \A c \in Deliveries : c < d => task[c].pc # "idle"

\* a mention: the events of a thread differ in their timestamp only, so
\* they are numbered in the order of their first delivery
CanDeliver(d, e) ==
    /\ CanStart(d)
    /\ e \in Mentions
    /\ \A f \in Events : f < e => \E c \in Deliveries : task[c].ev = f

\* the chat API: a request without conversation id opens a new conversation,
\* a request with one continues it; every event of the answer carries the id.
\* The handlers race on the maps line by line, so one line per answer is
\* enough here: an event with an answer fragment, or one without.
DifyConversation(sent) == IF sent # 0 THEN sent ELSE nextConversation
Line(event, answer, id) == [event |-> event, answer |-> answer, conversation_id |-> id]
Streams(id) ==
    {<<Line("message", 1, id)>>, <<Line("message_end", 0, id)>>}

SendRequest(d) == difyCalls' = [difyCalls EXCEPT ![d] = @ + 1]

Respond(d) == nextConversation' =
    IF task[d].conversationId = 0 THEN nextConversation + 1 ELSE nextConversation

BotStart ==
    /\ task = [d \in Deliveries |-> NoTask]
    /\ difyCalls = [d \in Deliveries |-> 0]
    /\ nextConversation = 1
    /\ processingUsers = {}
    /\ errorHandledMessages = {}
    /\ errorTimers = [e \in Events |-> 0]
    /\ processedEventIds = {}
    /\ guardTimers = {}
    /\ userConversations = [u \in Users |-> 0]
    /\ conversationStore = [t \in Threads |-> 0]
    /\ conversationMap = [t \in Threads |-> 0]
    /\ convMap = [t \in Threads |-> 0]
    /\ guardOwner = [e \in Events |-> 0]
    /\ dupOf = [d \in Deliveries |-> 0]
    /\ lastWriter = [k \in Users \cup Threads |-> 0]

BotIdle ==
    /\ bot = "none"
    /\ BotStart

\* the duplicate test that is never true
isDuplicate_never(guard, key) == FALSE

\* the duplicate test of the guards: processingUsers.has(userKey),
\* processedEventIds.has(deduplicationKey)
isDuplicate(guard, key) == key \in guard

(***************************************************************************)
(* ops_dev/index.js                                                        *)
(***************************************************************************)
\* userConversations.set(userId, data.conversation_id), kept when an entry exists
SetUserConversation_ifAbsent(store, userId, id) ==
    IF store[userId] = 0 THEN [store EXCEPT ![userId] = id] ELSE store

\* if (data.conversation_id) userConversations.set(userId, data.conversation_id)
SetUserConversation(store, userId, id) ==
    IF id # 0 THEN [store EXCEPT ![userId] = id] ELSE store

\* a finally block that sets no timer
Finally_noTimer(e, processing) ==
    /\ processingUsers' = processing \ {userKey(e)}
    /\ guardOwner' = [guardOwner EXCEPT ![e] = 0]
    /\ UNCHANGED errorTimers

\* the finally block of processConsultationInBackground
Finally(e, processing) ==
    /\ processingUsers' = processing \ {userKey(e)}
    /\ guardOwner' = [guardOwner EXCEPT ![e] = 0]
    /\ errorTimers' = [errorTimers EXCEPT ![e] = @ + 1]

\* the catch block of processConsultationInBackground: the apology is sent
\* once per key
CatchError(d, e) ==
    IF userKey(e) \notin errorHandledMessages
    THEN /\ errorHandledMessages' = errorHandledMessages \cup {userKey(e)}
         /\ task' = [task EXCEPT ![d].pc = "apology"]
         /\ UNCHANGED <<processingUsers, guardOwner, errorTimers>>
    ELSE /\ task' = [task EXCEPT ![d] = Leave(@, "returned")]
         /\ Finally(e, processingUsers)
         /\ UNCHANGED errorHandledMessages

\* processConsultationInBackground from its entry to the await of fetch;
\* processing is processingUsers as the caller left it, t the caller's task
StartBackground(d, e, processing, t) ==
    IF userKey(e) \notin processing
    THEN /\ task' = [task EXCEPT ![d] = [t EXCEPT !.pc = "returned"]]
         /\ Finally(e, processing)
         /\ UNCHANGED <<userCategoryHistory, difyCalls>>
    ELSE /\ userCategoryHistory' =
                updateCategoryHistory(userCategoryHistory, EVENT[e].user, EVENT[e].category)
         /\ SendRequest(d)
         /\ task' = [task EXCEPT ![d] = [t EXCEPT !.pc = "fetch"]]
         /\ processingUsers' = processing
         /\ guardOwner' = [guardOwner EXCEPT ![e] = d]
         /\ UNCHANGED errorTimers

\* the phrases app.message of ops_dev takes for ambiguous
\* (the Japanese phrases are written in Latin letters here)
vaguePatterns ==
    {"shitsumon", "soudan", "oshiete", "kikitai",
     "shitsumon desu", "shitsumon ga arimasu", "shitsumon shitai desu",
     "soudan desu", "soudan ga arimasu", "soudan shitai desu",
     "wakaranai", "komattemasu", "herupu",
     "otsukaresama"}

\* app.message once userText is known: the Block Kit form, or the direct
\* consultation.  Coupa/test_1.js uses vaguePatterns without defining it:
\* for a text that is not empty the test throws a ReferenceError.
Route(b, userText) ==
    IF b = "coupa"
    THEN IF userText = "" THEN "form" ELSE "ReferenceError"
    ELSE IF userText = "" \/ userText \in vaguePatterns THEN "form" ELSE "direct"

\* app.message: auth.test rejects; the catch block posts the apology
AuthTestFailed(d, e) ==
    /\ bot \in {"ops_dev", "coupa"}
    /\ EVENT[e].kind = "message"
    /\ CanStart(d)
    /\ task' = [task EXCEPT ![d] = [@ EXCEPT !.pc = "post_apology", !.ev = e]]
    /\ UNCHANGED <<difyVars, guardVars, mapVars, historyVars, bot,
                   userCategoryHistory, applied, splitVars, csvVars, toolVars>>

\* app.message with an empty or ambiguous text: after the await of
\* auth.test the Block Kit form is posted
MessageForm(d, e) ==
    /\ bot \in {"ops_dev", "coupa"}
    /\ EVENT[e].kind = "message"
    /\ CanStart(d)
    /\ Route(bot, EVENT[e].text) = "form"
    /\ task' = [task EXCEPT ![d] =
                  [@ EXCEPT !.pc = "post_form", !.ev = e, !.route = "form", !.form = 1]]
    /\ UNCHANGED <<difyVars, guardVars, mapVars, historyVars, bot,
                   userCategoryHistory, applied, splitVars, csvVars, toolVars>>

\* app.message of Coupa/test_1.js with a text that is not empty: the test
\* of the text throws, the catch block posts the apology
MessageThrows(d, e) ==
    /\ bot \in {"ops_dev", "coupa"}
    /\ EVENT[e].kind = "message"
    /\ CanStart(d)
    /\ Route(bot, EVENT[e].text) = "ReferenceError"
    /\ task' = [task EXCEPT ![d] =
                  [@ EXCEPT !.pc = "post_apology", !.ev = e, !.route = "ReferenceError"]]
    /\ UNCHANGED <<difyVars, guardVars, mapVars, historyVars, bot,
                   userCategoryHistory, applied, splitVars, csvVars, toolVars>>

\* the post of the form returns, or throws into the catch block
FormPosted(d) ==
    /\ bot \in {"ops_dev", "coupa"}
    /\ task[d].pc = "post_form"
    /\ \E ok \in BOOLEAN :
         task' = [task EXCEPT ![d] =
                    IF ok THEN Leave(@, "returned") ELSE [@ EXCEPT !.pc = "post_apology"]]
    /\ UNCHANGED <<difyVars, guardVars, mapVars, historyVars, bot,
                   userCategoryHistory, applied, splitVars, csvVars, toolVars>>

\* the post of the apology returns, or throws out of the handler
ApologyPosted(d) ==
    /\ bot \in {"ops_dev", "coupa"}
    /\ task[d].pc = "post_apology"
    /\ \E ok \in BOOLEAN :
         task' = [task EXCEPT ![d] = Leave(@, IF ok THEN "returned" ELSE "unhandled")]
    /\ UNCHANGED <<difyVars, guardVars, mapVars, historyVars, bot,
                   userCategoryHistory, applied, splitVars, csvVars, toolVars>>

\* app.message with a concrete question: after the await of auth.test (no
\* state of the bot is read before it) handleDirectConsultation runs up to
\* the await of the placeholder post
HandleDirectConsultation(d, e) ==
    /\ bot = "ops_dev"
    /\ EVENT[e].kind = "message"
    /\ Route(bot, EVENT[e].text) = "direct"
    /\ CanStart(d)
    /\ dupOf' = [dupOf EXCEPT ![d] =
                    IF userKey(e) \in processingUsers THEN guardOwner[e] ELSE 0]
    /\ IF isDuplicate(processingUsers, userKey(e))
       THEN /\ task' = [task EXCEPT ![d] =
                          [@ EXCEPT !.pc = "skipped", !.ev = e, !.route = "direct"]]
            /\ UNCHANGED <<processingUsers, guardOwner>>
       ELSE /\ processingUsers' = processingUsers \cup {userKey(e)}
            /\ guardOwner' = [guardOwner EXCEPT ![e] = d]
            /\ task' = [task EXCEPT ![d] =
                          [@ EXCEPT !.pc = "post_placeholder", !.ev = e, !.route = "direct",
                                    !.conversationId = userConversations[EVENT[e].user]]]
    /\ UNCHANGED <<difyVars, errorHandledMessages, errorTimers, processedEventIds,
                   guardTimers, mapVars, lastWriter, bot,
                   userCategoryHistory, applied, splitVars, csvVars, toolVars>>

\* the placeholder is posted: the rest of handleDirectConsultation and
\* processConsultationInBackground up to the await of fetch
PlaceholderPosted(d) ==
    /\ bot = "ops_dev"
    /\ task[d].pc = "post_placeholder"
    /\ EVENT[task[d].ev].kind = "message"
    /\ StartBackground(d, task[d].ev, processingUsers,
                       [task[d] EXCEPT !.placeholder = "posted"])
    /\ UNCHANGED <<nextConversation, errorHandledMessages, processedEventIds,
                   guardTimers, mapVars, dupOf, lastWriter, bot,
                   applied, splitVars, csvVars, toolVars>>

\* the placeholder post fails: handleDirectConsultation rejects, and its
\* caller does not await it; the key stays in processingUsers
PlaceholderFailed(d) ==
    /\ bot = "ops_dev"
    /\ task[d].pc = "post_placeholder"
    /\ EVENT[task[d].ev].kind = "message"
    /\ task' = [task EXCEPT ![d] = [@ EXCEPT !.pc = "unhandled", !.placeholder = "failed"]]
    /\ UNCHANGED <<difyVars, guardVars, mapVars, historyVars, bot,
                   userCategoryHistory, applied, splitVars, csvVars, toolVars>>

\* submit_consultation: ack, save the input, then the confirmation post and
\* the placeholder post are awaited one after the other (no state of the
\* bot is read in between)
SubmitConsultation(d, e) ==
    /\ bot = "ops_dev"
    /\ EVENT[e].kind = "submit"
    /\ CanStart(d)
    /\ task' = [task EXCEPT ![d] = [@ EXCEPT !.pc = "post_placeholder", !.ev = e]]
    /\ UNCHANGED <<difyVars, guardVars, mapVars, historyVars, bot,
                   userCategoryHistory, applied, splitVars, csvVars, toolVars>>

\* the placeholder of a submission is posted: the duplicate test, then
\* processConsultationInBackground up to the await of fetch
SubmitPlaceholderPosted(d) ==
    /\ bot = "ops_dev"
    /\ task[d].pc = "post_placeholder"
    /\ EVENT[task[d].ev].kind = "submit"
    /\ LET e == task[d].ev
       IN /\ dupOf' = [dupOf EXCEPT ![d] =
                          IF userKey(e) \in processingUsers THEN guardOwner[e] ELSE 0]
          /\ IF isDuplicate(processingUsers, userKey(e))
             THEN /\ task' = [task EXCEPT ![d] =
                                [@ EXCEPT !.pc = "skipped", !.placeholder = "posted"]]
                  /\ UNCHANGED <<processingUsers, guardOwner, errorTimers,
                                 userCategoryHistory, difyCalls>>
             ELSE StartBackground(d, e, processingUsers \cup {userKey(e)},
                                  [task[d] EXCEPT !.placeholder = "posted",
                                       !.conversationId = userConversations[EVENT[e].user]])
    /\ UNCHANGED <<nextConversation, errorHandledMessages, processedEventIds,
                   guardTimers, mapVars, lastWriter, bot,
                   applied, splitVars, csvVars, toolVars>>

\* one of the two posts fails: the catch block awaits postEphemeral
SubmitPlaceholderFailed(d) ==
    /\ bot = "ops_dev"
    /\ task[d].pc = "post_placeholder"
    /\ EVENT[task[d].ev].kind = "submit"
    /\ task' = [task EXCEPT ![d] = [@ EXCEPT !.pc = "post_ephemeral", !.placeholder = "failed"]]
    /\ UNCHANGED <<difyVars, guardVars, mapVars, historyVars, bot,
                   userCategoryHistory, applied, splitVars, csvVars, toolVars>>

EphemeralPosted(d) ==
    /\ bot = "ops_dev"
    /\ task[d].pc = "post_ephemeral"
    /\ \E ok \in BOOLEAN :
         task' = [task EXCEPT ![d] = Leave(@, IF ok THEN "returned" ELSE "unhandled")]
    /\ UNCHANGED <<difyVars, guardVars, mapVars, historyVars, bot,
                   userCategoryHistory, applied, splitVars, csvVars, toolVars>>

\* the chat API answers 2xx: the stream is read next
DevFetchOk(d) ==
    /\ bot = "ops_dev"
    /\ task[d].pc = "fetch"
    /\ \E lines \in Streams(DifyConversation(task[d].conversationId)) :
         task' = [task EXCEPT ![d] = [@ EXCEPT !.pc = "streaming", !.stream = lines]]
    /\ Respond(d)
    /\ UNCHANGED <<difyCalls, guardVars, mapVars, historyVars, bot,
                   userCategoryHistory, applied, splitVars, csvVars, toolVars>>

\* fetch rejects, the status is not 2xx, or reading the stream throws
DevFetchFailed(d) ==
    /\ bot = "ops_dev"
    /\ task[d].pc \in {"fetch", "streaming"}
    /\ CatchError(d, task[d].ev)
    /\ UNCHANGED <<difyVars, processedEventIds, guardTimers, mapVars, dupOf,
                   lastWriter, bot, userCategoryHistory, applied, splitVars, csvVars, toolVars>>

\* one data line of the stream: the conversation id is saved, the answer
\* accumulated, and the placeholder updated when a second has passed or the
\* fragment ends a sentence.  That chat.update is awaited inside the try of
\* the line, which swallows its failure, and no state of the bot changes
\* before the next line: the await is part of this step.
DevStreamLine(d) ==
    /\ bot = "ops_dev"
    /\ task[d].pc = "streaming"
    /\ task[d].stream # <<>>
    /\ LET line == Head(task[d].stream)
           userId == EVENT[task[d].ev].user
           answering == line.event = "message" /\ line.answer # 0
       IN /\ userConversations' =
                 SetUserConversation(userConversations, userId, line.conversation_id)
          /\ lastWriter' = IF line.conversation_id # 0
                           THEN [lastWriter EXCEPT ![userId] = d] ELSE lastWriter
          /\ task' = [task EXCEPT ![d] =
                    [@ EXCEPT !.stream = Tail(@),
                              !.received = IF line.conversation_id # 0
                                           THEN line.conversation_id ELSE @,
                              !.fullAnswer = IF answering THEN @ + 1 ELSE @]]
    /\ UNCHANGED <<difyVars, guardVars, conversationStore, conversationMap, convMap,
                   guardOwner, dupOf, bot, userCategoryHistory, applied,
                   splitVars, csvVars, toolVars>>

\* the stream is done: the final chat.update is awaited
DevStreamEnd(d) ==
    /\ bot = "ops_dev"
    /\ task[d].pc = "streaming"
    /\ task[d].stream = <<>>
    /\ task' = [task EXCEPT ![d].pc = "final"]
    /\ UNCHANGED <<difyVars, guardVars, mapVars, historyVars, bot,
                   userCategoryHistory, applied, splitVars, csvVars, toolVars>>

DevFinalDone(d) ==
    /\ bot = "ops_dev"
    /\ task[d].pc = "final"
    /\ task' = [task EXCEPT ![d] = Leave(@, "returned")]
    /\ Finally(task[d].ev, processingUsers)
    /\ UNCHANGED <<difyVars, errorHandledMessages, processedEventIds, guardTimers,
                   mapVars, dupOf, lastWriter, bot, userCategoryHistory, applied,
                   splitVars, csvVars, toolVars>>

DevFinalFailed(d) ==
    /\ bot = "ops_dev"
    /\ task[d].pc = "final"
    /\ CatchError(d, task[d].ev)
    /\ UNCHANGED <<difyVars, processedEventIds, guardTimers, mapVars, dupOf,
                   lastWriter, bot, userCategoryHistory, applied, splitVars, csvVars, toolVars>>

\* the apology update returns or throws; the finally block runs either way
DevApologyDone(d) ==
    /\ bot = "ops_dev"
    /\ task[d].pc = "apology"
    /\ \E ok \in BOOLEAN :
         task' = [task EXCEPT ![d] = Leave(@, IF ok THEN "returned" ELSE "unhandled")]
    /\ Finally(task[d].ev, processingUsers)
    /\ UNCHANGED <<difyVars, errorHandledMessages, processedEventIds, guardTimers,
                   mapVars, dupOf, lastWriter, bot, userCategoryHistory, applied,
                   splitVars, csvVars, toolVars>>

\* a 30 s timer set by a finally block fires
ErrorTimerFires(e) ==
    /\ bot = "ops_dev"
    /\ errorTimers[e] > 0
    /\ errorTimers' = [errorTimers EXCEPT ![e] = @ - 1]
    /\ errorHandledMessages' = errorHandledMessages \ {userKey(e)}
    /\ UNCHANGED <<bot, task, difyVars, processingUsers, processedEventIds, guardTimers,
                   mapVars, historyVars, userCategoryHistory, applied, splitVars, csvVars, toolVars>>

NextOpsDev ==
    \/ \E d \in Deliveries, e \in Events : AuthTestFailed(d, e)
    \/ \E d \in Deliveries, e \in Events : MessageForm(d, e)
    \/ \E d \in Deliveries, e \in Events : MessageThrows(d, e)
    \/ \E d \in Deliveries : FormPosted(d)
    \/ \E d \in Deliveries : ApologyPosted(d)
    \/ \E d \in Deliveries, e \in Events : HandleDirectConsultation(d, e)
    \/ \E d \in Deliveries : PlaceholderPosted(d)
    \/ \E d \in Deliveries : PlaceholderFailed(d)
    \/ \E d \in Deliveries, e \in Events : SubmitConsultation(d, e)
    \/ \E d \in Deliveries : SubmitPlaceholderPosted(d)
    \/ \E d \in Deliveries : SubmitPlaceholderFailed(d)
    \/ \E d \in Deliveries : EphemeralPosted(d)
    \/ \E d \in Deliveries : DevFetchOk(d)
    \/ \E d \in Deliveries : DevFetchFailed(d)
    \/ \E d \in Deliveries : DevStreamLine(d)
    \/ \E d \in Deliveries : DevStreamEnd(d)
    \/ \E d \in Deliveries : DevFinalDone(d)
    \/ \E d \in Deliveries : DevFinalFailed(d)
    \/ \E d \in Deliveries : DevApologyDone(d)
    \/ \E e \in Events : ErrorTimerFires(e)

(***************************************************************************)
(* slack-dify-ops-bot/index.js                                             *)
(***************************************************************************)
\* conversationStore[conversationKey] = newConversationId, kept when an entry exists
SetConversationStore_ifAbsent(store, conversationKey, newConversationId) ==
    IF newConversationId # 0 /\ store[conversationKey] = 0
    THEN [store EXCEPT ![conversationKey] = newConversationId]
    ELSE store

\* if (newConversationId) conversationStore[conversationKey] = newConversationId
SetConversationStore(store, conversationKey, newConversationId) ==
    IF newConversationId # 0
    THEN [store EXCEPT ![conversationKey] = newConversationId]
    ELSE store

\* callDifyChatApi returns
ReturnFromCall(t) == Leave(t, "returned")

\* app_mention: the duplicate test, then processEvent and callDifyChatApi up
\* to the await of the placeholder post (the events carry text and no file)
AppMention(d, e) ==
    /\ bot = "ops_bot"
    /\ CanDeliver(d, e)
    /\ dupOf' = [dupOf EXCEPT ![d] =
                    IF deduplicationKey(e) \in processedEventIds THEN guardOwner[e] ELSE 0]
    /\ IF isDuplicate(processedEventIds, deduplicationKey(e))
       THEN /\ task' = [task EXCEPT ![d] = [@ EXCEPT !.pc = "skipped", !.ev = e]]
            /\ UNCHANGED <<processedEventIds, guardTimers, guardOwner>>
       ELSE /\ processedEventIds' = processedEventIds \cup {deduplicationKey(e)}
            /\ guardTimers' = guardTimers \cup {e}
            /\ guardOwner' = [guardOwner EXCEPT ![e] = d]
            /\ task' = [task EXCEPT ![d] =
                          [@ EXCEPT !.pc = "post_placeholder", !.ev = e,
                                    !.conversationId = conversationStore[EVENT[e].thread]]]
    /\ UNCHANGED <<difyVars, processingUsers, errorHandledMessages, errorTimers,
                   mapVars, lastWriter, bot, userCategoryHistory, applied,
                   splitVars, csvVars, toolVars>>

\* the 60 s timer of a key fires
GuardTimerFires(e) ==
    /\ bot = "ops_bot"
    /\ e \in guardTimers
    /\ guardTimers' = guardTimers \ {e}
    /\ processedEventIds' = processedEventIds \ {deduplicationKey(e)}
    /\ guardOwner' = [guardOwner EXCEPT ![e] = 0]
    /\ UNCHANGED <<bot, task, difyVars, processingUsers, errorHandledMessages,
                   errorTimers, mapVars, dupOf, lastWriter, userCategoryHistory,
                   applied, splitVars, csvVars, toolVars>>

\* the placeholder is posted: the first checkParentDeleted is awaited
BotPlaceholderPosted(d) ==
    /\ bot = "ops_bot"
    /\ task[d].pc = "post_placeholder"
    /\ task' = [task EXCEPT ![d] = [@ EXCEPT !.pc = "parent_check", !.placeholder = "posted"]]
    /\ UNCHANGED <<difyVars, guardVars, mapVars, historyVars, bot,
                   userCategoryHistory, applied, splitVars, csvVars, toolVars>>

\* the placeholder post fails: callDifyChatApi rejects, processEvent posts
\* the error text and the listener returns
BotPlaceholderFailed(d) ==
    /\ bot = "ops_bot"
    /\ task[d].pc = "post_placeholder"
    /\ task' = [task EXCEPT ![d] = [@ EXCEPT !.pc = "returned", !.placeholder = "failed"]]
    /\ UNCHANGED <<difyVars, guardVars, mapVars, historyVars, bot,
                   userCategoryHistory, applied, splitVars, csvVars, toolVars>>

\* the first check returns.  Thread deleted: the placeholder is deleted
\* (chat.delete awaited, its failure caught) and the function returns.
\* Otherwise (also when the check throws) the periodic check is started and
\* the request is sent.
ParentChecked(d) ==
    /\ bot = "ops_bot"
    /\ task[d].pc = "parent_check"
    /\ \E deleted \in BOOLEAN :
         IF deleted
         THEN /\ task' = [task EXCEPT ![d] =
                            ReturnFromCall([@ EXCEPT !.placeholder = "deleted"])]
              /\ UNCHANGED difyCalls
         ELSE /\ task' = [task EXCEPT ![d] = [@ EXCEPT !.pc = "fetch"]]
              /\ SendRequest(d)
    /\ UNCHANGED <<nextConversation, guardVars, mapVars, historyVars, bot,
                   userCategoryHistory, applied, splitVars, csvVars, toolVars>>

\* the periodic check (checkParentDeleted every 30 s from the first check
\* on) finds the thread deleted before the stream has been read to its end
\* (found later, the deletion changes nothing that is modelled here)
PollReturns(d) ==
    /\ bot = "ops_bot"
    /\ task[d].pc \in {"fetch", "streaming"}
    /\ ~task[d].parentDeleted
    /\ task' = [task EXCEPT ![d].parentDeleted = TRUE]
    /\ UNCHANGED <<difyVars, guardVars, mapVars, historyVars, bot,
                   userCategoryHistory, applied, splitVars, csvVars, toolVars>>

BotFetchOk(d) ==
    /\ bot = "ops_bot"
    /\ task[d].pc = "fetch"
    /\ \E lines \in Streams(DifyConversation(task[d].conversationId)) :
         task' = [task EXCEPT ![d] = [@ EXCEPT !.pc = "streaming", !.stream = lines]]
    /\ Respond(d)
    /\ UNCHANGED <<difyCalls, guardVars, mapVars, historyVars, bot,
                   userCategoryHistory, applied, splitVars, csvVars, toolVars>>

\* the catch block of callDifyChatApi: the error text is put in the
\* placeholder unless the thread is known to be deleted (the chat.update is
\* awaited and its failure logged), then the function returns
BotCatch(d, t) == task' = [task EXCEPT ![d] = ReturnFromCall(t)]

\* fetch rejects, the status is not 2xx, or reading the stream throws
BotFetchFailed(d) ==
    /\ bot = "ops_bot"
    /\ task[d].pc \in {"fetch", "streaming"}
    /\ BotCatch(d, task[d])
    /\ UNCHANGED <<difyVars, guardVars, mapVars, historyVars, bot,
                   userCategoryHistory, applied, splitVars, csvVars, toolVars>>

\* one chunk of the stream: the first conversation id is kept, the answer
\* accumulated, and when 2 s have passed the placeholder is updated
\* (update: "none" no update, "ok", "thread_not_found", "error")
BotStreamChunk(d) ==
    /\ bot = "ops_bot"
    /\ task[d].pc = "streaming"
    /\ task[d].stream # <<>>
    /\ ~task[d].parentDeleted
    /\ LET line == Head(task[d].stream)
           read == [task[d] EXCEPT
                      !.stream = Tail(@),
                      !.fullAnswer = IF line.answer # 0 THEN @ + 1 ELSE @,
                      !.received = IF line.conversation_id # 0 /\ @ = 0
                                   THEN line.conversation_id ELSE @]
       IN \E update \in {"none", "ok", "thread_not_found", "error"} :
            /\ update # "none" => read.fullAnswer > 0
            /\ CASE update \in {"none", "ok"} -> task' = [task EXCEPT ![d] = read]
                 [] update = "thread_not_found" ->
                      task' = [task EXCEPT ![d] = [read EXCEPT !.parentDeleted = TRUE]]
                 [] update = "error" -> BotCatch(d, read)
    /\ UNCHANGED <<difyVars, guardVars, mapVars, historyVars, bot,
                   userCategoryHistory, applied, splitVars, csvVars, toolVars>>

\* the loop is left, at the end of the stream or because the deletion of
\* the thread was detected.  Deleted: the placeholder is deleted and the
\* function returns.  Otherwise the conversation id is stored and the final
\* chat.update awaited.
BotStreamEnd(d) ==
    /\ bot = "ops_bot"
    /\ task[d].pc = "streaming"
    /\ task[d].stream = <<>> \/ task[d].parentDeleted
    /\ LET conversationKey == EVENT[task[d].ev].thread
       IN IF task[d].parentDeleted
          THEN /\ task' = [task EXCEPT ![d] =
                            ReturnFromCall([@ EXCEPT !.placeholder = "deleted"])]
               /\ UNCHANGED <<conversationStore, lastWriter>>
          ELSE /\ conversationStore' =
                     SetConversationStore(conversationStore, conversationKey, task[d].received)
               /\ lastWriter' = IF task[d].received # 0
                                THEN [lastWriter EXCEPT ![conversationKey] = d]
                                ELSE lastWriter
               /\ task' = [task EXCEPT ![d].pc = "final"]
    /\ UNCHANGED <<difyVars, guardVars, userConversations, conversationMap, convMap,
                   guardOwner, dupOf, bot, userCategoryHistory, applied,
                   splitVars, csvVars, toolVars>>

\* the final chat.update returns, or throws thread_not_found: the function
\* returns
BotFinalDone(d) ==
    /\ bot = "ops_bot"
    /\ task[d].pc = "final"
    /\ task' = [task EXCEPT ![d] = ReturnFromCall(@)]
    /\ UNCHANGED <<difyVars, guardVars, mapVars, historyVars, bot,
                   userCategoryHistory, applied, splitVars, csvVars, toolVars>>

BotFinalFailed(d) ==
    /\ bot = "ops_bot"
    /\ task[d].pc = "final"
    /\ BotCatch(d, task[d])
    /\ UNCHANGED <<difyVars, guardVars, mapVars, historyVars, bot,
                   userCategoryHistory, applied, splitVars, csvVars, toolVars>>

NextOpsBot ==
    \/ \E d \in Deliveries, e \in Events : AppMention(d, e)
    \/ \E e \in Events : GuardTimerFires(e)
    \/ \E d \in Deliveries : BotPlaceholderPosted(d)
    \/ \E d \in Deliveries : BotPlaceholderFailed(d)
    \/ \E d \in Deliveries : ParentChecked(d)
    \/ \E d \in Deliveries : PollReturns(d)
    \/ \E d \in Deliveries : BotFetchOk(d)
    \/ \E d \in Deliveries : BotFetchFailed(d)
    \/ \E d \in Deliveries : BotStreamChunk(d)
    \/ \E d \in Deliveries : BotStreamEnd(d)
    \/ \E d \in Deliveries : BotFinalDone(d)
    \/ \E d \in Deliveries : BotFinalFailed(d)

(***************************************************************************)
(* slack-dify-operator/app-socket.js                                       *)
(***************************************************************************)
\* if (conversation_id && !conversationMap.has(threadKey))
\*     conversationMap.set(threadKey, conversation_id)
SetConversationMap(store, threadKey, conversation_id) ==
    IF conversation_id # 0 /\ store[threadKey] = 0
    THEN [store EXCEPT ![threadKey] = conversation_id]
    ELSE store

\* app_mention: the query is cleaned, the previous conversation id read and
\* queryDifyAgentStreaming sends the request
OperatorMention(d, e) ==
    /\ bot = "operator"
    /\ CanDeliver(d, e)
    /\ task' = [task EXCEPT ![d] =
                  [@ EXCEPT !.pc = "fetch", !.ev = e,
                            !.conversationId = conversationMap[EVENT[e].thread]]]
    /\ SendRequest(d)
    /\ UNCHANGED <<nextConversation, guardVars, mapVars, historyVars, bot,
                   userCategoryHistory, applied, splitVars, csvVars, toolVars>>

OpFetchOk(d) ==
    /\ bot = "operator"
    /\ task[d].pc = "fetch"
    /\ \E lines \in Streams(DifyConversation(task[d].conversationId)) :
         task' = [task EXCEPT ![d] = [@ EXCEPT !.pc = "streaming", !.stream = lines]]
    /\ Respond(d)
    /\ UNCHANGED <<difyCalls, guardVars, mapVars, historyVars, bot,
                   userCategoryHistory, applied, splitVars, csvVars, toolVars>>

\* fetch rejects, the status is not 2xx or the stream throws:
\* queryDifyAgentStreaming returns { conversation_id: null } and the
\* handler awaits its final post
OpFetchFailed(d) ==
    /\ bot = "operator"
    /\ task[d].pc \in {"fetch", "streaming"}
    /\ task' = [task EXCEPT ![d] = [@ EXCEPT !.pc = "final", !.received = 0]]
    /\ UNCHANGED <<difyVars, guardVars, mapVars, historyVars, bot,
                   userCategoryHistory, applied, splitVars, csvVars, toolVars>>

\* one event of the stream: an event with an answer is passed to
\* onDataChunk and its conversation id becomes the latest one
OpStreamEvent(d) ==
    /\ bot = "operator"
    /\ task[d].pc = "streaming"
    /\ task[d].stream # <<>>
    /\ LET line == Head(task[d].stream)
       IN task' = [task EXCEPT ![d] =
                     [@ EXCEPT !.stream = Tail(@),
                               !.fullAnswer = IF line.answer # 0 THEN @ + 1 ELSE @,
                               !.received = IF line.answer # 0 /\ line.conversation_id # 0
                                            THEN line.conversation_id ELSE @]]
    /\ UNCHANGED <<difyVars, guardVars, mapVars, historyVars, bot,
                   userCategoryHistory, applied, splitVars, csvVars, toolVars>>

\* the stream is done: the final post or update is awaited
OpStreamEnd(d) ==
    /\ bot = "operator"
    /\ task[d].pc = "streaming"
    /\ task[d].stream = <<>>
    /\ task' = [task EXCEPT ![d].pc = "final"]
    /\ UNCHANGED <<difyVars, guardVars, mapVars, historyVars, bot,
                   userCategoryHistory, applied, splitVars, csvVars, toolVars>>

\* the final post returns: the conversation id is stored for a new thread
OpFinalDone(d) ==
    /\ bot = "operator"
    /\ task[d].pc = "final"
    /\ LET threadKey == EVENT[task[d].ev].thread
       IN /\ conversationMap' =
                 SetConversationMap(conversationMap, threadKey, task[d].received)
          /\ lastWriter' = IF task[d].received # 0 /\ conversationMap[threadKey] = 0
                           THEN [lastWriter EXCEPT ![threadKey] = d]
                           ELSE lastWriter
    /\ task' = [task EXCEPT ![d] = Leave(@, "returned")]
    /\ UNCHANGED <<difyVars, guardVars, userConversations, conversationStore, convMap,
                   guardOwner, dupOf, bot, userCategoryHistory, applied,
                   splitVars, csvVars, toolVars>>

\* the final post throws: so does the handler, before the store
OpFinalFailed(d) ==
    /\ bot = "operator"
    /\ task[d].pc = "final"
    /\ task' = [task EXCEPT ![d] = Leave(@, "unhandled")]
    /\ UNCHANGED <<difyVars, guardVars, mapVars, historyVars, bot,
                   userCategoryHistory, applied, splitVars, csvVars, toolVars>>

NextOperator ==
    \/ \E d \in Deliveries, e \in Events : OperatorMention(d, e)
    \/ \E d \in Deliveries : OpFetchOk(d)
    \/ \E d \in Deliveries : OpFetchFailed(d)
    \/ \E d \in Deliveries : OpStreamEvent(d)
    \/ \E d \in Deliveries : OpStreamEnd(d)
    \/ \E d \in Deliveries : OpFinalDone(d)
    \/ \E d \in Deliveries : OpFinalFailed(d)

(***************************************************************************)
(* slack-dify-mso-chatflow/index.js                                        *)
(***************************************************************************)
\* if (response.data.conversation_id) convMap[thread_ts] = response.data.conversation_id
SetConvMap(store, thread_ts, conversation_id) ==
    IF conversation_id # 0 THEN [store EXCEPT ![thread_ts] = conversation_id] ELSE store

\* app_mention: the conversation id of the thread is read and the blocking
\* request sent
MsoMention(d, e) ==
    /\ bot = "mso"
    /\ CanDeliver(d, e)
    /\ task' = [task EXCEPT ![d] =
                  [@ EXCEPT !.pc = "fetch", !.ev = e,
                            !.conversationId = convMap[EVENT[e].thread]]]
    /\ SendRequest(d)
    /\ UNCHANGED <<nextConversation, guardVars, mapVars, historyVars, bot,
                   userCategoryHistory, applied, splitVars, csvVars, toolVars>>

\* the response arrives: convMap is updated and the answer said
MsoResponse(d) ==
    /\ bot = "mso"
    /\ task[d].pc = "fetch"
    /\ LET thread_ts == EVENT[task[d].ev].thread
           conversation_id == DifyConversation(task[d].conversationId)
       IN /\ convMap' = SetConvMap(convMap, thread_ts, conversation_id)
          /\ lastWriter' = [lastWriter EXCEPT ![thread_ts] = d]
          /\ task' = [task EXCEPT ![d] =
                        [@ EXCEPT !.pc = "say", !.received = conversation_id]]
    /\ Respond(d)
    /\ UNCHANGED <<difyCalls, guardVars, userConversations, conversationStore,
                   conversationMap, guardOwner, dupOf, bot, userCategoryHistory,
                   applied, splitVars, csvVars, toolVars>>

\* axios.post rejects (network error or status outside 2xx): the error is said
MsoFailed(d) ==
    /\ bot = "mso"
    /\ task[d].pc = "fetch"
    /\ task' = [task EXCEPT ![d].pc = "say_error"]
    /\ UNCHANGED <<difyVars, guardVars, mapVars, historyVars, bot,
                   userCategoryHistory, applied, splitVars, csvVars, toolVars>>

\* say returns, or throws inside the try (then the error is said)
MsoSaid(d) ==
    /\ bot = "mso"
    /\ task[d].pc = "say"
    /\ \E ok \in BOOLEAN :
         task' = [task EXCEPT ![d].pc = IF ok THEN "returned" ELSE "say_error"]
    /\ UNCHANGED <<difyVars, guardVars, mapVars, historyVars, bot,
                   userCategoryHistory, applied, splitVars, csvVars, toolVars>>

MsoErrorSaid(d) ==
    /\ bot = "mso"
    /\ task[d].pc = "say_error"
    /\ \E ok \in BOOLEAN :
         task' = [task EXCEPT ![d] = Leave(@, IF ok THEN "returned" ELSE "unhandled")]
    /\ UNCHANGED <<difyVars, guardVars, mapVars, historyVars, bot,
                   userCategoryHistory, applied, splitVars, csvVars, toolVars>>

NextMso ==
    \/ \E d \in Deliveries, e \in Events : MsoMention(d, e)
    \/ \E d \in Deliveries : MsoResponse(d)
    \/ \E d \in Deliveries : MsoFailed(d)
    \/ \E d \in Deliveries : MsoSaid(d)
    \/ \E d \in Deliveries : MsoErrorSaid(d)

(***************************************************************************)
(* fetchWithRateLimitRetry (1_slack-message-get.js, message_count.js,      *)
(* part_006): one call.  The first fetch is sent when the call starts.     *)
(***************************************************************************)
\* what res.headers.get('retry-after') can be: no header, a number of
\* seconds, or an HTTP date
RetryAfterHeaders ==
    {[kind |-> "absent", seconds |-> 0], [kind |-> "date", seconds |-> 0]}
        \cup {[kind |-> "seconds", seconds |-> n] : n \in 0..MaxRetryAfter}
Statuses == {200, 429, 500}

\* parseInt(res.headers.get('retry-after') || '5', 10)
retryAfter(header) ==
    CASE header.kind = "absent" -> [nan |-> FALSE, value |-> 5]
      [] header.kind = "date" -> [nan |-> TRUE, value |-> 0]
      [] OTHER -> [nan |-> FALSE, value |-> header.seconds]

\* the delay without the extra second
sleepMs_noMargin(header) ==
    IF retryAfter(header).nan THEN 1 ELSE retryAfter(header).value * 1000

\* the delay given to setTimeout: (retryAfter + 1) * 1000; setTimeout
\* takes NaN for 1 ms
sleepMs(header) ==
    IF retryAfter(header).nan THEN 1 ELSE (retryAfter(header).value + 1) * 1000

\* the test that allows a sixth request
giveUp_late(n) == n > 5

\* if (attempt >= 5) throw
giveUp(n) == n >= 5

RetryIdle ==
    /\ retryPc = "idle"
    /\ attempt = 0
    /\ fetches = 0
    /\ responses = <<>>
    /\ slept = <<>>

\* fetch resolves: a 429 is slept on, any other response is returned
FetchResolves(status, header) ==
    /\ retryPc = "fetch"
    /\ responses' = Append(responses, [status |-> status, retryAfter |-> header])
    /\ IF status = 429
       THEN /\ slept' = Append(slept, sleepMs(header))
            /\ retryPc' = "sleep"
       ELSE /\ retryPc' = "returned"
            /\ UNCHANGED slept
    /\ UNCHANGED <<attempt, fetches, splitVars, csvVars, histVars, botVars, streamVars, deliveryVars, laterVars>>

\* fetch rejects: the error leaves the function
FetchRejects ==
    /\ retryPc = "fetch"
    /\ retryPc' = "thrown"
    /\ UNCHANGED <<attempt, fetches, responses, slept, splitVars, csvVars, histVars, botVars, streamVars, deliveryVars, laterVars>>

\* the timer fires: attempt++, then the throw or the next fetch
SleepDone ==
    /\ retryPc = "sleep"
    /\ attempt' = attempt + 1
    /\ retryPc' = IF giveUp(attempt + 1) THEN "thrown" ELSE "fetch"
    /\ fetches' = IF giveUp(attempt + 1) THEN fetches ELSE fetches + 1
    /\ UNCHANGED <<responses, slept, splitVars, csvVars, histVars, botVars, streamVars, deliveryVars, laterVars>>

(***************************************************************************)
(* One streamed exchange: processConsultationInBackground (ops_dev) from   *)
(* its fetch, callDifyChatApi (ops-bot) from its fetch, and the            *)
(* app_mention handler of the operator with queryDifyAgentStreaming.       *)
(* A chunk carries one line.  Time is counted in ticks of 1000 ms.         *)
(***************************************************************************)
StreamVariants == {"ops_dev", "ops_bot", "operator"}

\* a line of the stream: an answer event (message / agent_message), an
\* object with an answer and no event, message_end, or text that
\* JSON.parse rejects; boundary: the answer has one of the sentence-end
\* characters (a sentence of 30 characters, other answers have 15);
\* chars: the length of the answer
StreamLines ==
    {[kind |-> "message", boundary |-> FALSE, chars |-> 15, conversation_id |-> 1],
     [kind |-> "message", boundary |-> TRUE, chars |-> 30, conversation_id |-> 1]}
      \cup {[kind |-> "noevent", boundary |-> FALSE, chars |-> 15, conversation_id |-> 1],
            [kind |-> "message_end", boundary |-> FALSE, chars |-> 0, conversation_id |-> 1],
            [kind |-> "bad", boundary |-> FALSE, chars |-> 0, conversation_id |-> 0]}

\* the texts a message can show
Text(kind, frags) == [kind |-> kind, frags |-> frags]
NoText == Text("none", <<>>)
AnswerText(buffer) == Text("answer", buffer)

\* the characters in the buffer
Chars(buffer) == Sum([i \in 1..Len(buffer) |-> streamInput[buffer[i]].chars])

\* the update interval of each program and its test
updateInterval(v) == IF v = "ops_bot" THEN 2 ELSE 1
intervalPassed(v, t, last) ==
    CASE v = "ops_dev" -> t - last > 1
      [] v = "ops_bot" -> t - last > 2
      [] OTHER -> t - last >= 1

\* the catch of JSON.parse gives up on the rest of the stream
afterParseError_abort(read, n) == n

\* the catch of JSON.parse: the loop goes on with the next line
afterParseError(read, n) == read + 1

\* the text of the final message: the buffer, or the fixed text of the
\* program when the buffer is empty
finalText(v, buffer) ==
    IF buffer # <<>> THEN AnswerText(buffer)
    ELSE IF v = "operator" THEN Text("no_response", <<>>)
    ELSE Text("fallback", <<>>)

\* the text of the catch block: ops-bot quotes error.message, which holds
\* the status and the body of the response
apologyText(v) ==
    IF v = "ops_bot" THEN Text("apology_detail", <<>>) ELSE Text("apology", <<>>)

Call(op, kind, txt, boundary) ==
    [op |-> op, kind |-> kind, text |-> txt, at |-> now, boundary |-> boundary]

StreamIdle ==
    /\ streamVariant = "none"
    /\ streamInput = <<>>
    /\ streamStatus = "ok"
    /\ streamPc = "idle"
    /\ streamRead = 0
    /\ answerBuffer = <<>>
    /\ streamConversation = 0
    /\ now = 0
    /\ lastUpdateTime = 0
    /\ lastUpdateText = NoText
    /\ streamParentDeleted = FALSE
    /\ errorHandled = FALSE
    /\ postMessagePromise = "none"
    /\ slackInitialSent = FALSE
    /\ inflight = {}
    /\ slackCalls = <<>>
    /\ slackFailed = FALSE
    /\ display = NoText

otherVars == <<splitVars, csvVars, histVars, botVars, retryVars, deliveryVars, laterVars>>
operatorVars == <<postMessagePromise, slackInitialSent, inflight>>

\* time passes
Tick ==
    /\ streamPc \notin {"idle", "done", "unhandled"}
    /\ now < MaxTicks
    /\ now' = now + 1
    /\ UNCHANGED <<streamVariant, streamInput, streamStatus, streamPc, streamRead,
                   answerBuffer, streamConversation, lastUpdateTime, lastUpdateText,
                   streamParentDeleted, errorHandled, operatorVars, slackCalls,
                   slackFailed, display, otherVars>>

\* the catch block of ops_dev and of ops-bot: the apology replaces the
\* placeholder, unless the key is marked (ops_dev) or the parent is gone
\* (ops-bot)
StreamCatch ==
    IF (streamVariant = "ops_dev" /\ errorHandled)
         \/ (streamVariant = "ops_bot" /\ streamParentDeleted)
    THEN /\ streamPc' = "done"
         /\ UNCHANGED <<slackCalls, slackFailed, display, errorHandled>>
    ELSE /\ slackCalls' = Append(slackCalls,
                Call("update", "apology", apologyText(streamVariant), FALSE))
         /\ errorHandled' = (streamVariant = "ops_dev" \/ errorHandled)
         /\ \E ok \in BOOLEAN :
              /\ display' = IF ok THEN apologyText(streamVariant) ELSE display
              /\ slackFailed' = (slackFailed \/ ~ok)
              /\ streamPc' = IF ok \/ streamVariant = "ops_bot" THEN "done" ELSE "unhandled"

\* fetch resolves: a status outside 2xx is thrown (ops_dev, ops-bot) or
\* makes queryDifyAgentStreaming return no conversation id (operator)
StreamFetched ==
    /\ streamPc = "fetch"
    /\ IF streamStatus = "error"
       THEN IF streamVariant = "operator"
            THEN /\ streamPc' = "final"
                 /\ UNCHANGED <<slackCalls, slackFailed, display, errorHandled>>
            ELSE StreamCatch
       ELSE /\ streamPc' = "streaming"
            /\ UNCHANGED <<slackCalls, slackFailed, display, errorHandled>>
    /\ lastUpdateTime' = IF streamVariant = "operator" THEN 0 ELSE now
    /\ UNCHANGED <<streamVariant, streamInput, streamStatus, streamRead, answerBuffer,
                   streamConversation, now, lastUpdateText, streamParentDeleted,
                   operatorVars, otherVars>>

\* reading the body fails before its end: thrown to the catch block
\* (ops_dev, ops-bot), or the streaming call returns no conversation id
\* and the handler goes on to its final message (operator)
StreamBreaks ==
    /\ streamPc = "streaming"
    /\ streamRead < Len(streamInput)
    /\ streamStatus' = "broken"
    /\ IF streamVariant = "operator"
       THEN /\ streamPc' = "final"
            /\ streamConversation' = 0
            /\ UNCHANGED <<slackCalls, slackFailed, display, errorHandled>>
       ELSE /\ StreamCatch
            /\ UNCHANGED streamConversation
    /\ UNCHANGED <<streamVariant, streamInput, streamRead, answerBuffer, now,
                   lastUpdateTime, lastUpdateText, streamParentDeleted,
                   operatorVars, otherVars>>

\* ops_dev, one line: JSON.parse, the conversation id, the answer and the
\* awaited interim update; a rejected update is taken for a parse error
DevLine ==
    /\ streamVariant = "ops_dev"
    /\ streamPc = "streaming"
    /\ streamRead < Len(streamInput)
    /\ LET i == streamRead + 1
           data == streamInput[i]
       IN IF data.kind = "bad"
          THEN /\ streamRead' = afterParseError(streamRead, Len(streamInput))
               /\ UNCHANGED <<answerBuffer, streamConversation, lastUpdateTime,
                              slackCalls, slackFailed, display>>
          ELSE /\ streamRead' = i
               /\ streamConversation' =
                      IF data.conversation_id # 0 THEN data.conversation_id
                      ELSE streamConversation
               /\ CASE data.kind = "message" ->
                         /\ answerBuffer' = Append(answerBuffer, i)
                         /\ IF intervalPassed("ops_dev", now, lastUpdateTime) \/ data.boundary
                            THEN /\ lastUpdateTime' = now
                                 /\ slackCalls' = Append(slackCalls,
                                       Call("update", "interim", AnswerText(answerBuffer'),
                                            data.boundary))
                                 /\ \E ok \in BOOLEAN :
                                      /\ display' = IF ok THEN AnswerText(answerBuffer') ELSE display
                                      /\ slackFailed' = (slackFailed \/ ~ok)
                            ELSE UNCHANGED <<lastUpdateTime, slackCalls, slackFailed, display>>
                    [] data.kind = "noevent" /\ answerBuffer = <<>> ->
                         /\ answerBuffer' = <<i>>
                         /\ slackCalls' = Append(slackCalls,
                               Call("update", "interim", AnswerText(<<i>>), data.boundary))
                         /\ \E ok \in BOOLEAN :
                              /\ display' = IF ok THEN AnswerText(<<i>>) ELSE display
                              /\ slackFailed' = (slackFailed \/ ~ok)
                         /\ UNCHANGED lastUpdateTime
                    [] OTHER ->
                         UNCHANGED <<answerBuffer, lastUpdateTime, slackCalls,
                                     slackFailed, display>>
    /\ UNCHANGED <<streamVariant, streamInput, streamStatus, streamPc, now,
                   lastUpdateText, streamParentDeleted, errorHandled, operatorVars,
                   otherVars>>

\* ops_dev, done: the final update; its rejection goes to the catch block
DevEnd ==
    /\ streamVariant = "ops_dev"
    /\ streamPc = "streaming"
    /\ streamRead = Len(streamInput)
    /\ \E ok \in BOOLEAN :
         IF ok
         THEN /\ slackCalls' = Append(slackCalls,
                    Call("update", "final", finalText("ops_dev", answerBuffer), FALSE))
              /\ display' = finalText("ops_dev", answerBuffer)
              /\ streamPc' = "done"
              /\ UNCHANGED <<slackFailed, errorHandled>>
         ELSE /\ slackFailed' = TRUE
              /\ \E ok2 \in BOOLEAN :
                   IF errorHandled
                   THEN /\ ok2
                        /\ slackCalls' = Append(slackCalls,
                              Call("update", "final", finalText("ops_dev", answerBuffer), FALSE))
                        /\ streamPc' = "done"
                        /\ UNCHANGED <<display, errorHandled>>
                   ELSE /\ slackCalls' = Append(Append(slackCalls,
                              Call("update", "final", finalText("ops_dev", answerBuffer), FALSE)),
                              Call("update", "apology", apologyText("ops_dev"), FALSE))
                        /\ errorHandled' = TRUE
                        /\ display' = IF ok2 THEN apologyText("ops_dev") ELSE display
                        /\ streamPc' = IF ok2 THEN "done" ELSE "unhandled"
    /\ UNCHANGED <<streamVariant, streamInput, streamStatus, streamRead, answerBuffer,
                   streamConversation, now, lastUpdateTime, lastUpdateText,
                   streamParentDeleted, operatorVars, otherVars>>

\* ops-bot, the lines of one chunk: JSON.parse, the answer, the first
\* conversation id
BotLine ==
    /\ streamVariant = "ops_bot"
    /\ streamPc = "streaming"
    /\ ~streamParentDeleted
    /\ streamRead < Len(streamInput)
    /\ LET i == streamRead + 1
           jsonData == streamInput[i]
       IN IF jsonData.kind = "bad"
          THEN /\ streamRead' = afterParseError(streamRead, Len(streamInput))
               /\ UNCHANGED <<answerBuffer, streamConversation>>
          ELSE /\ streamRead' = i
               /\ answerBuffer' = IF jsonData.kind \in {"message", "noevent"}
                                  THEN Append(answerBuffer, i) ELSE answerBuffer
               /\ streamConversation' =
                      IF jsonData.conversation_id # 0 /\ streamConversation = 0
                      THEN jsonData.conversation_id ELSE streamConversation
    /\ streamPc' = "chunk_end"
    /\ UNCHANGED <<streamVariant, streamInput, streamStatus, now, lastUpdateTime,
                   lastUpdateText, streamParentDeleted, errorHandled, operatorVars,
                   slackCalls, slackFailed, display, otherVars>>

\* ops-bot, after the lines of the chunk: the interim update when the
\* interval has passed; thread_not_found ends the loop, another rejection
\* goes to the catch block
BotChunkEnd ==
    /\ streamVariant = "ops_bot"
    /\ streamPc = "chunk_end"
    /\ IF intervalPassed("ops_bot", now, lastUpdateTime) /\ ~streamParentDeleted
            /\ answerBuffer # <<>>
       THEN /\ lastUpdateTime' = now
            /\ IF AnswerText(answerBuffer) # lastUpdateText
               THEN \E result \in {"ok", "thread_not_found", "error"} :
                      /\ slackFailed' = (slackFailed \/ result # "ok")
                      /\ streamParentDeleted' =
                            (streamParentDeleted \/ result = "thread_not_found")
                      /\ lastUpdateText' = IF result = "ok" THEN AnswerText(answerBuffer)
                                           ELSE lastUpdateText
                      /\ IF result = "error"
                         THEN /\ slackCalls' = Append(Append(slackCalls,
                                    Call("update", "interim", AnswerText(answerBuffer), FALSE)),
                                    Call("update", "apology", apologyText("ops_bot"), FALSE))
                              /\ \E ok \in BOOLEAN :
                                   display' = IF ok THEN apologyText("ops_bot") ELSE display
                              /\ streamPc' = "done"
                         ELSE /\ slackCalls' = Append(slackCalls,
                                    Call("update", "interim", AnswerText(answerBuffer), FALSE))
                              /\ display' = IF result = "ok" THEN AnswerText(answerBuffer)
                                            ELSE Text("deleted", <<>>)
                              /\ streamPc' = "streaming"
               ELSE /\ streamPc' = "streaming"
                    /\ UNCHANGED <<slackCalls, slackFailed, display, lastUpdateText,
                                   streamParentDeleted>>
       ELSE /\ streamPc' = "streaming"
            /\ UNCHANGED <<lastUpdateTime, slackCalls, slackFailed, display,
                           lastUpdateText, streamParentDeleted>>
    /\ UNCHANGED <<streamVariant, streamInput, streamStatus, streamRead, answerBuffer,
                   streamConversation, now, errorHandled, operatorVars, otherVars>>

\* ops-bot: the poll of the parent message finds it deleted
BotPollFindsDeleted ==
    /\ streamVariant = "ops_bot"
    /\ streamPc \in {"streaming", "chunk_end"}
    /\ ~streamParentDeleted
    /\ streamParentDeleted' = TRUE
    /\ display' = Text("deleted", <<>>)
    /\ UNCHANGED <<streamVariant, streamInput, streamStatus, streamPc, streamRead,
                   answerBuffer, streamConversation, now, lastUpdateTime,
                   lastUpdateText, errorHandled, operatorVars, slackCalls,
                   slackFailed, otherVars>>

\* ops-bot, after the loop: the placeholder is deleted when the parent is
\* gone; otherwise the final update with the first message of the answer
BotEnd ==
    /\ streamVariant = "ops_bot"
    /\ streamPc = "streaming"
    /\ streamRead = Len(streamInput) \/ streamParentDeleted
    /\ IF streamParentDeleted
       THEN /\ slackCalls' = Append(slackCalls,
                  Call("delete", "delete", Text("deleted", <<>>), FALSE))
            /\ display' = Text("deleted", <<>>)
            /\ streamPc' = "done"
            /\ UNCHANGED slackFailed
       ELSE \E result \in {"ok", "thread_not_found", "error"} :
              /\ slackFailed' = (slackFailed \/ result # "ok")
              /\ streamPc' = "done"
              /\ IF result = "error"
                 THEN /\ slackCalls' = Append(Append(slackCalls,
                            Call("update", "final", finalText("ops_bot", answerBuffer), FALSE)),
                            Call("update", "apology", apologyText("ops_bot"), FALSE))
                      /\ \E ok \in BOOLEAN :
                           display' = IF ok THEN apologyText("ops_bot") ELSE display
                 ELSE /\ slackCalls' = Append(slackCalls,
                            Call("update", "final", finalText("ops_bot", answerBuffer), FALSE))
                      /\ display' = IF result = "ok" THEN finalText("ops_bot", answerBuffer)
                                    ELSE Text("deleted", <<>>)
    /\ UNCHANGED <<streamVariant, streamInput, streamStatus, streamRead, answerBuffer,
                   streamConversation, now, lastUpdateTime, lastUpdateText,
                   streamParentDeleted, errorHandled, operatorVars, otherVars>>

\* operator, the test of onDataChunk before its chat.postMessage, without
\* the test of the promise
postsInitial_everyChunk(sent, chars, promise) == ~sent /\ chars >= 30

\* operator, the test of onDataChunk before its chat.postMessage:
\* !slackInitialSent && messageBuffer.length >= 30 && !postMessagePromise
postsInitial(sent, chars, promise) == ~sent /\ chars >= 30 /\ promise = "none"

\* operator, one event of the parser: JSON.parse, then onDataChunk up to
\* its first await: the buffer grows, the initial message is posted once
\* the buffer has 30 characters, an update is sent when the interval has
\* passed since lastUpdateTime
OpEvent ==
    /\ streamVariant = "operator"
    /\ streamPc = "streaming"
    /\ streamRead < Len(streamInput)
    /\ LET i == streamRead + 1
           parsed == streamInput[i]
           messageBuffer == Append(answerBuffer, i)
       IN IF parsed.kind = "bad"
          THEN /\ streamRead' = afterParseError(streamRead, Len(streamInput))
               /\ UNCHANGED <<answerBuffer, streamConversation, operatorVars, slackCalls>>
          ELSE /\ streamRead' = i
               /\ IF parsed.kind \in {"message", "noevent"}
                  THEN /\ answerBuffer' = messageBuffer
                       /\ streamConversation' =
                              IF parsed.conversation_id # 0 THEN parsed.conversation_id
                              ELSE streamConversation
                       /\ IF postsInitial(slackInitialSent, Chars(messageBuffer),
                                          postMessagePromise)
                          THEN /\ postMessagePromise' = "pending"
                               /\ slackCalls' = Append(slackCalls,
                                     Call("post", "initial", AnswerText(messageBuffer),
                                          parsed.boundary))
                               /\ UNCHANGED <<slackInitialSent, inflight>>
                          ELSE IF postMessagePromise # "none" /\ slackInitialSent
                                    /\ intervalPassed("operator", now, lastUpdateTime)
                               THEN /\ slackCalls' = Append(slackCalls,
                                          Call("update", "interim", AnswerText(messageBuffer),
                                               parsed.boundary))
                                    /\ inflight' = inflight \cup {Len(slackCalls) + 1}
                                    /\ UNCHANGED <<postMessagePromise, slackInitialSent>>
                               ELSE UNCHANGED <<operatorVars, slackCalls>>
                  ELSE UNCHANGED <<answerBuffer, streamConversation, operatorVars, slackCalls>>
    /\ UNCHANGED <<streamVariant, streamInput, streamStatus, streamPc, now,
                   lastUpdateTime, lastUpdateText, streamParentDeleted, errorHandled,
                   slackFailed, display, otherVars>>

\* operator: the initial chat.postMessage settles; then() records the ts
\* and the time, catch() logs the rejection
OpPostSettles ==
    /\ streamVariant = "operator"
    /\ postMessagePromise = "pending"
    /\ postMessagePromise' = "resolved"
    /\ \E ok \in BOOLEAN :
         /\ slackInitialSent' = ok
         /\ slackFailed' = (slackFailed \/ ~ok)
         /\ lastUpdateTime' = IF ok THEN now ELSE lastUpdateTime
         /\ display' = IF ok
                       THEN (CHOOSE c \in {slackCalls[k] : k \in 1..Len(slackCalls)} :
                                 c.kind = "initial").text
                       ELSE display
    /\ UNCHANGED <<streamVariant, streamInput, streamStatus, streamPc, streamRead,
                   answerBuffer, streamConversation, now, lastUpdateText,
                   streamParentDeleted, errorHandled, inflight, slackCalls, otherVars>>

\* operator: Slack applies one of the chat.update calls in flight and the
\* call resolves; onDataChunk then sets lastUpdateTime to the time it read
\* before the call, the handler ends after its final update
OpUpdateApplied(k) ==
    /\ streamVariant = "operator"
    /\ k \in inflight
    /\ inflight' = inflight \ {k}
    /\ display' = slackCalls[k].text
    /\ IF slackCalls[k].kind = "final"
       THEN /\ streamPc' = "done"
            /\ UNCHANGED lastUpdateTime
       ELSE /\ lastUpdateTime' = slackCalls[k].at
            /\ UNCHANGED streamPc
    /\ UNCHANGED <<streamVariant, streamInput, streamStatus, streamRead, answerBuffer,
                   streamConversation, now, lastUpdateText, streamParentDeleted,
                   errorHandled, postMessagePromise, slackInitialSent, slackCalls,
                   slackFailed, otherVars>>

\* operator: the body is read to its end
OpStreamEnds ==
    /\ streamVariant = "operator"
    /\ streamPc = "streaming"
    /\ streamRead = Len(streamInput)
    /\ streamPc' = "final"
    /\ UNCHANGED <<streamVariant, streamInput, streamStatus, streamRead, answerBuffer,
                   streamConversation, now, lastUpdateTime, lastUpdateText,
                   streamParentDeleted, errorHandled, operatorVars, slackCalls,
                   slackFailed, display, otherVars>>

\* operator, after the streaming call: the final update of the initial
\* message once its promise has settled, or the only message when none
\* was posted
OpFinal ==
    /\ streamVariant = "operator"
    /\ streamPc = "final"
    /\ postMessagePromise # "pending"
    /\ IF postMessagePromise = "resolved"
       THEN IF slackInitialSent
            THEN /\ slackCalls' = Append(slackCalls,
                       Call("update", "final", AnswerText(answerBuffer), FALSE))
                 /\ inflight' = inflight \cup {Len(slackCalls) + 1}
                 /\ streamPc' = "final_update"
                 /\ UNCHANGED <<display, slackFailed>>
            ELSE /\ streamPc' = "done"
                 /\ UNCHANGED <<slackCalls, inflight, display, slackFailed>>
       ELSE /\ slackCalls' = Append(slackCalls,
                  Call("post", "final", finalText("operator", answerBuffer), FALSE))
            /\ \E ok \in BOOLEAN :
                 /\ display' = IF ok THEN slackCalls'[Len(slackCalls')].text ELSE display
                 /\ slackFailed' = (slackFailed \/ ~ok)
                 /\ streamPc' = IF ok THEN "done" ELSE "unhandled"
            /\ UNCHANGED inflight
    /\ UNCHANGED <<streamVariant, streamInput, streamStatus, streamRead, answerBuffer,
                   streamConversation, now, lastUpdateTime, lastUpdateText,
                   streamParentDeleted, errorHandled, postMessagePromise,
                   slackInitialSent, otherVars>>

(***************************************************************************)
(* The final answer sent in parts: callDifyChatApi of ops-bot from its     *)
(* final update, sendLongMessage (part_001, Coupa/test_1.js), and          *)
(* runDifyTaskInBackground of slack-messages-get with postFinalAnswer.     *)
(***************************************************************************)
DeliveryVariants == {"ops_bot", "sendLongMessage", "slack_messages_get"}

Shown(kind, index) == [kind |-> kind, index |-> index]

\* the first part posted as a new message: every part
firstPosted_all(v) == 1

\* the first part posted as a new message: for (let i = 1; ...) after the
\* update of the placeholder, for (const message of messages) in
\* postFinalAnswer
firstPosted(v) == IF v = "slack_messages_get" THEN 1 ELSE 2

DeliveryIdle ==
    /\ deliveryVariant = "none"
    /\ deliveryPc = "idle"
    /\ chatRequests = <<>>
    /\ streamResult = "none"
    /\ partCount = 0
    /\ partIndex = 0
    /\ pendingMessage = Shown("none", 0)
    /\ threadMessages = <<>>
    /\ postFailed = FALSE

restVars == <<splitVars, csvVars, histVars, botVars, retryVars, streamVars, laterVars>>

\* slack-messages-get, step 1: attemptStreaming returns; its catch holds
\* back a status outside 2xx and a broken stream
AttemptStreamingReturns(result) ==
    /\ deliveryVariant = "slack_messages_get"
    /\ deliveryPc = "streaming"
    /\ streamResult' = result
    /\ deliveryPc' = "summarising"
    /\ UNCHANGED <<deliveryVariant, chatRequests, partCount, partIndex, pendingMessage,
                   threadMessages, postFailed, restVars>>

\* step 2: the placeholder is updated and, whatever step 1 returned, the
\* blocking request is sent by fetchFinalAnswer
SummarisingShown ==
    /\ deliveryVariant = "slack_messages_get"
    /\ deliveryPc = "summarising"
    /\ \E ok \in BOOLEAN :
         IF ok
         THEN /\ pendingMessage' = Shown("summarising", 0)
              /\ chatRequests' = Append(chatRequests, "blocking")
              /\ deliveryPc' = "blocking"
              /\ UNCHANGED postFailed
         ELSE /\ postFailed' = TRUE
              /\ deliveryPc' = "unhandled"
              /\ UNCHANGED <<pendingMessage, chatRequests>>
    /\ UNCHANGED <<deliveryVariant, streamResult, partCount, partIndex, threadMessages,
                   restVars>>

\* fetchFinalAnswer returns: an answer goes to postFinalAnswer, an error
\* or an empty answer is written to the placeholder
FetchFinalAnswerReturns(result, n) ==
    /\ deliveryVariant = "slack_messages_get"
    /\ deliveryPc = "blocking"
    /\ IF result = "answer"
       THEN /\ partCount' = n
            /\ deliveryPc' = "deleting"
            /\ UNCHANGED <<pendingMessage, postFailed>>
       ELSE /\ n = 1
            /\ \E ok \in BOOLEAN :
                 /\ pendingMessage' = IF ok THEN Shown("apology_detail", 0) ELSE pendingMessage
                 /\ postFailed' = (postFailed \/ ~ok)
                 /\ deliveryPc' = IF ok THEN "done" ELSE "unhandled"
            /\ UNCHANGED partCount
    /\ UNCHANGED <<deliveryVariant, chatRequests, streamResult, partIndex, threadMessages,
                   restVars>>

\* postFinalAnswer: chat.delete of the placeholder; a rejection is logged
PendingDeleted ==
    /\ deliveryVariant = "slack_messages_get"
    /\ deliveryPc = "deleting"
    /\ \E ok \in BOOLEAN :
         /\ pendingMessage' = IF ok THEN Shown("deleted", 0) ELSE pendingMessage
         /\ postFailed' = (postFailed \/ ~ok)
    /\ partIndex' = firstPosted(deliveryVariant)
    /\ deliveryPc' = "posting"
    /\ UNCHANGED <<deliveryVariant, chatRequests, streamResult, partCount, threadMessages,
                   restVars>>

\* ops-bot and sendLongMessage: chat.update puts the first part into the
\* placeholder
FirstPartUpdated ==
    /\ deliveryVariant \in {"ops_bot", "sendLongMessage"}
    /\ deliveryPc = "first"
    /\ \E result \in {"ok", "thread_not_found", "error"} :
         /\ postFailed' = (postFailed \/ result # "ok")
         /\ CASE result = "ok" ->
                   /\ pendingMessage' = Shown("part", 1)
                   /\ partIndex' = firstPosted(deliveryVariant)
                   /\ deliveryPc' = IF partCount = 1 THEN "done" ELSE "posting"
                   /\ UNCHANGED threadMessages
              [] result # "ok" /\ deliveryVariant = "sendLongMessage" ->
                   \* the catch at the end of sendLongMessage posts an error text
                   /\ \E ok \in BOOLEAN :
                        threadMessages' = IF ok /\ partCount > 1
                                          THEN Append(threadMessages, Shown("error", 0))
                                          ELSE threadMessages
                   /\ deliveryPc' = "done"
                   /\ UNCHANGED <<pendingMessage, partIndex>>
              [] result = "thread_not_found" /\ deliveryVariant = "ops_bot" ->
                   /\ deliveryPc' = "done"
                   /\ UNCHANGED <<pendingMessage, partIndex, threadMessages>>
              [] OTHER ->
                   \* the catch of callDifyChatApi
                   /\ \E ok \in BOOLEAN :
                        pendingMessage' = IF ok THEN Shown("apology_detail", 0)
                                          ELSE pendingMessage
                   /\ deliveryPc' = "done"
                   /\ UNCHANGED <<partIndex, threadMessages>>
    /\ UNCHANGED <<deliveryVariant, chatRequests, streamResult, partCount, restVars>>

\* chat.postMessage of the next part
PartPosted ==
    /\ deliveryPc = "posting"
    /\ partIndex <= partCount
    /\ \E result \in {"ok", "thread_not_found", "rate_limited", "error"} :
         /\ postFailed' = (postFailed \/ result # "ok")
         /\ CASE result = "ok" ->
                   /\ threadMessages' = Append(threadMessages, Shown("part", partIndex))
                   /\ partIndex' = partIndex + 1
                   /\ deliveryPc' = IF partIndex = partCount THEN "done" ELSE "posting"
                   /\ UNCHANGED pendingMessage
              [] result # "ok" /\ deliveryVariant = "slack_messages_get" ->
                   \* thrown out of runDifyTaskInBackground
                   /\ deliveryPc' = "unhandled"
                   /\ UNCHANGED <<pendingMessage, threadMessages, partIndex>>
              [] result # "ok" /\ deliveryVariant = "sendLongMessage" ->
                   \* the notice of the failed part is posted
                   /\ \E ok \in BOOLEAN :
                        threadMessages' = IF ok
                                          THEN Append(threadMessages, Shown("notice", partIndex))
                                          ELSE threadMessages
                   /\ deliveryPc' = IF result = "rate_limited" THEN "retry" ELSE "done"
                   /\ UNCHANGED <<pendingMessage, partIndex>>
              [] result = "thread_not_found" /\ deliveryVariant = "ops_bot" ->
                   /\ deliveryPc' = "done"
                   /\ UNCHANGED <<pendingMessage, threadMessages, partIndex>>
              [] OTHER ->
                   \* the catch of callDifyChatApi overwrites the first part
                   /\ \E ok \in BOOLEAN :
                        pendingMessage' = IF ok THEN Shown("apology_detail", 0)
                                          ELSE pendingMessage
                   /\ deliveryPc' = "done"
                   /\ UNCHANGED <<threadMessages, partIndex>>
    /\ UNCHANGED <<deliveryVariant, chatRequests, streamResult, partCount, restVars>>

\* sendLongMessage: after 3 s the part that was rate limited is posted
\* again; a second rejection ends the loop
PartRetried ==
    /\ deliveryVariant = "sendLongMessage"
    /\ deliveryPc = "retry"
    /\ \E ok \in BOOLEAN :
         IF ok
         THEN /\ threadMessages' = Append(threadMessages, Shown("part", partIndex))
              /\ partIndex' = partIndex + 1
              /\ deliveryPc' = IF partIndex = partCount THEN "done" ELSE "posting"
         ELSE /\ deliveryPc' = "done"
              /\ UNCHANGED <<threadMessages, partIndex>>
    /\ UNCHANGED <<deliveryVariant, chatRequests, streamResult, partCount, pendingMessage,
                   postFailed, restVars>>

(***************************************************************************)
(* The expiring conversation map (part_005): the app_mention handler and   *)
(* the hourly sweep.  Time is counted in ticks of half an hour.            *)
(***************************************************************************)
NoEntry == [conversation_id |-> 0, updatedAt |-> 0]
oneHour == 2
ConversationIds == {1, 2}

\* the test that deletes an entry one hour old
expired_atOneHour(t, entry) == t - entry.updatedAt >= oneHour

\* if (now - convMap[ts].updatedAt > oneHour)
expired(t, entry) == t - entry.updatedAt > oneHour

ExpiryIdle ==
    /\ expiringConvMap = [t \in Threads |-> NoEntry]
    /\ clock = 0
    /\ mentionPc = [t \in Threads |-> "idle"]
    /\ sweepsDue = 0
    /\ removedLog = {}

\* half an hour passes; on the hour the setInterval timer expires
ClockTick ==
    /\ clock < MaxClock
    /\ clock' = clock + 1
    /\ sweepsDue' = IF clock' % oneHour = 0 THEN sweepsDue + 1 ELSE sweepsDue
    /\ UNCHANGED <<expiringConvMap, mentionPc, removedLog, exceptExpiry>>

\* the callback of setInterval: every entry older than one hour is deleted
Sweep ==
    /\ sweepsDue > 0
    /\ sweepsDue' = sweepsDue - 1
    /\ expiringConvMap' =
          [t \in Threads |->
              IF expiringConvMap[t] # NoEntry /\ expired(clock, expiringConvMap[t])
              THEN NoEntry ELSE expiringConvMap[t]]
    /\ removedLog' = removedLog \cup
          {[thread_ts |-> t, age |-> clock - expiringConvMap[t].updatedAt] :
              t \in {u \in Threads : expiringConvMap[u] # NoEntry
                                     /\ expired(clock, expiringConvMap[u])}}
    /\ UNCHANGED <<clock, mentionPc, exceptExpiry>>

\* app_mention: the conversation id of the thread is read and the request
\* sent
ExpiryMention(t) ==
    /\ mentionPc[t] = "idle"
    /\ mentionPc' = [mentionPc EXCEPT ![t] = "fetch"]
    /\ UNCHANGED <<expiringConvMap, clock, sweepsDue, removedLog, exceptExpiry>>

\* the response arrives: with a conversation id the entry is written with
\* the time of the write; then the answer is said
ExpiryResponse(t, id) ==
    /\ mentionPc[t] = "fetch"
    /\ expiringConvMap' =
          IF id # 0
          THEN [expiringConvMap EXCEPT ![t] = [conversation_id |-> id, updatedAt |-> clock]]
          ELSE expiringConvMap
    /\ mentionPc' = [mentionPc EXCEPT ![t] = "say"]
    /\ UNCHANGED <<clock, sweepsDue, removedLog, exceptExpiry>>

\* axios.post rejects: the error is said
ExpiryRequestFails(t) ==
    /\ mentionPc[t] = "fetch"
    /\ mentionPc' = [mentionPc EXCEPT ![t] = "say_error"]
    /\ UNCHANGED <<expiringConvMap, clock, sweepsDue, removedLog, exceptExpiry>>

\* say settles and the handler ends
ExpirySaid(t) ==
    /\ mentionPc[t] \in {"say", "say_error"}
    /\ mentionPc' = [mentionPc EXCEPT ![t] = "idle"]
    /\ UNCHANGED <<expiringConvMap, clock, sweepsDue, removedLog, exceptExpiry>>

(***************************************************************************)
(* getContentRecursively (notionDB-to-difyKnowledge/1_notionDB-get.js,     *)
(* part_002) and the page loop that calls it.  What the Notion API answers *)
(* is chosen when it is asked: any block may name any id, so every graph   *)
(* over the ids, cycles included, is covered.                              *)
(***************************************************************************)
MaxPages == 2        \* ids of pages and blocks
MaxBlocks == 2       \* most blocks in the children of one id
MaxEntries == 1      \* most pages in one child database
MaxTopPages == 2     \* most pages of the database given to the page loop
MaxListings == 2     \* cap of the listings counter

PageIds == 1 .. MaxPages

\* the call that has not returned: the id it lists, the blocks it may still
\* meet, whether it is inside the query loop of a child database and the
\* entries that loop may still meet
Frame(blockId) ==
    [blockId |-> blockId, blocks |-> MaxBlocks, inDb |-> FALSE, entries |-> 0]

ContentIdle ==
    /\ contentPc = "pages"
    /\ pagesLeft = MaxTopPages
    /\ visited = {}
    /\ callStack = <<>>
    /\ listings = [p \in PageIds |-> 0]
    /\ skipped = FALSE

visitedHas_never(blockId, set) == FALSE

\* visited.has(blockId)
visitedHas(blockId, set) == blockId \in set

\* getContentRecursively(blockId, notion, visited, indent) called from the
\* stack rest: the skip marker is returned at once, or the id is added to
\* visited and the listing of its children starts
getContentRecursively(blockId, rest) ==
    IF visitedHas(blockId, visited)
    THEN /\ skipped' = TRUE
         /\ callStack' = rest
         /\ UNCHANGED <<visited, listings>>
    ELSE /\ listings[blockId] < MaxListings
         /\ visited' = visited \cup {blockId}
         /\ listings' = [listings EXCEPT ![blockId] = @ + 1]
         /\ callStack' = Append(rest, Frame(blockId))
         /\ UNCHANGED skipped

Running == callStack # <<>>
Current == callStack[Len(callStack)]
Callers == SubSeq(callStack, 1, Len(callStack) - 1)
Advanced(f) == [callStack EXCEPT ![Len(callStack)] = f]

\* const visited = new Set(); record.page_content = await getContentRecursively(page.id, ...)
TopLevelPage(p) ==
    /\ contentPc = "pages"
    /\ ~Running
    /\ visited' = {p}
    /\ listings' = [q \in PageIds |-> IF q = p THEN 1 ELSE 0]
    /\ callStack' = <<Frame(p)>>
    /\ contentPc' = "page"
    /\ pagesLeft > 0
    /\ pagesLeft' = pagesLeft - 1
    /\ UNCHANGED <<skipped, exceptContent>>

\* the recursion of one top-level page has returned; allRecords.push(record)
PageRecorded ==
    /\ contentPc = "page"
    /\ ~Running
    /\ contentPc' \in IF pagesLeft > 0 THEN {"pages", "done"} ELSE {"done"}
    /\ UNCHANGED <<pagesLeft, visited, callStack, listings, skipped, exceptContent>>

\* the database has no page
NoPages ==
    /\ contentPc = "pages"
    /\ visited = {}
    /\ contentPc' = "done"
    /\ UNCHANGED <<pagesLeft, visited, callStack, listings, skipped, exceptContent>>

\* a block with text, or of a type the function ignores
TextBlock ==
    /\ Running
    /\ ~Current.inDb
    /\ Current.blocks > 0
    /\ callStack' = Advanced([Current EXCEPT !.blocks = @ - 1])
    /\ UNCHANGED <<contentPc, pagesLeft, visited, listings, skipped, exceptContent>>

\* if (block.type === 'child_page')
ChildPage(p) ==
    /\ Running
    /\ ~Current.inDb
    /\ Current.blocks > 0
    /\ getContentRecursively(p, Advanced([Current EXCEPT !.blocks = @ - 1]))
    /\ UNCHANGED <<contentPc, pagesLeft, exceptContent>>

\* else if (block.type === 'child_database'): the query loop starts
ChildDatabase ==
    /\ Running
    /\ ~Current.inDb
    /\ Current.blocks > 0
    /\ callStack' = Advanced([Current EXCEPT !.blocks = @ - 1, !.inDb = TRUE,
                                             !.entries = MaxEntries])
    /\ UNCHANGED <<contentPc, pagesLeft, visited, listings, skipped, exceptContent>>

\* for (const page of dbResponse.results)
DbEntry(p) ==
    /\ Running
    /\ Current.inDb
    /\ Current.entries > 0
    /\ getContentRecursively(p, Advanced([Current EXCEPT !.entries = @ - 1]))
    /\ UNCHANGED <<contentPc, pagesLeft, exceptContent>>

\* dbHasMore is false
DbEnd ==
    /\ Running
    /\ Current.inDb
    /\ callStack' = Advanced([Current EXCEPT !.inDb = FALSE, !.entries = 0])
    /\ UNCHANGED <<contentPc, pagesLeft, visited, listings, skipped, exceptContent>>

\* hasMore is false: return allTextBlocks.map(escapeNewlines).join('\\n')
ContentReturned ==
    /\ Running
    /\ ~Current.inDb
    /\ callStack' = Callers
    /\ UNCHANGED <<contentPc, pagesLeft, visited, listings, skipped, exceptContent>>

(***************************************************************************)
(* The export of Slack messages (1_slack-message-get.js) and their         *)
(* flattening into parent/child records: convertCsvStringToDifyReadyCsv-   *)
(* String of 2_slack-to-dify-converter.js and of part_012.  The text of a  *)
(* message is named by the ts of the message.                              *)
(***************************************************************************)
MaxMessages == 3     \* most rows written by one export
MaxTs == 3           \* timestamps of the messages: 1 .. MaxTs

FlattenVariants == {"slack_to_dify_converter", "part_012"}
Timestamps == 1 .. MaxTs
\* a message of conversations.history / conversations.replies; thread_ts 0: none
SlackMessages == [ts : Timestamps, thread_ts : 0 .. MaxTs, text : BOOLEAN]
\* a field the row does not have
Undefined == -1

FlattenIdle ==
    /\ flattenPc = "export"
    /\ flattenVariant = "none"
    /\ writtenMessages = {}
    /\ slackRows = <<>>
    /\ flattened = <<>>

\* stringifier.write({ user, text, ts, thread_ts, thread_url, source, raw_data })
exportedRow(msg) ==
    [ts |-> msg.ts,
     thread_ts |-> IF msg.thread_ts # 0 /\ msg.thread_ts # msg.ts THEN msg.thread_ts ELSE 0,
     thread_url |-> msg.thread_ts,
     text |-> msg.ts]

\* for (const msg of data.messages), of the history and of the replies
ExportMessage(msg) ==
    /\ flattenPc = "export"
    /\ Len(slackRows) < MaxMessages
    /\ IF ~msg.text \/ msg.ts \in writtenMessages
       THEN UNCHANGED <<slackRows, writtenMessages>>
       ELSE /\ slackRows' = Append(slackRows, exportedRow(msg))
            /\ writtenMessages' = writtenMessages \cup {msg.ts}
    /\ UNCHANGED <<flattenPc, flattenVariant, flattened, exceptFlatten>>

\* stringifier.end(): the CSV string is complete
ExportEnds ==
    /\ flattenPc = "export"
    /\ flattenPc' = "exported"
    /\ UNCHANGED <<flattenVariant, writtenMessages, slackRows, flattened, exceptFlatten>>

\* row.timestamp (2_slack-to-dify-converter.js) / row.ts (part_012)
rowTimestamp(v, row) == IF v = "slack_to_dify_converter" THEN Undefined ELSE row.ts

\* formatTimestamp(ts) of part_012: the local time to the minute; the other
\* converter writes the value as it is
formatTimestamp(v, ts) ==
    IF v = "part_012" THEN [minute |-> IF ts = Undefined THEN 0 ELSE ts]
                      ELSE [minute |-> ts]

isParentThread(v, row) == row.thread_ts = 0 \/ rowTimestamp(v, row) = row.thread_ts
isChildThread(v, row) == row.thread_ts # 0 /\ rowTimestamp(v, row) # row.thread_ts

parentThreads(v, records) ==
    LET keep(row) == isParentThread(v, row) IN SelectSeq(records, keep)
childThreads(v, records) ==
    LET keep(row) == isChildThread(v, row) IN SelectSeq(records, keep)

\* the lines of child_text: the texts of the children, then the thread URL
childLines(v, parent, records) ==
    LET parentTs == rowTimestamp(v, parent)
        mine(child) == child.thread_ts = parentTs
        children == SelectSeq(childThreads(v, records), mine)
    IN  [i \in 1 .. Len(children) |-> [line |-> "text", of |-> children[i].text]]
        \o (IF parent.thread_url # 0
            THEN <<[line |-> "url", of |-> parent.thread_url]>> ELSE <<>>)

\* parentThreads.map(parent => ({ parent_timestamp, parent_text, child_text }))
transformed(v, records) ==
    LET parents == parentThreads(v, records)
    IN  [i \in 1 .. Len(parents) |->
            [parent_timestamp |-> formatTimestamp(v, rowTimestamp(v, parents[i])),
             parent_text |-> parents[i].text,
             child_text |-> childLines(v, parents[i], records)]]

\* convertCsvStringToDifyReadyCsvString(csvString), up to transformedData
ConvertRows(v) ==
    /\ flattenPc = "exported"
    /\ flattenVariant' = v
    /\ flattened' = transformed(v, slackRows)
    /\ flattenPc' = "converted"
    /\ UNCHANGED <<writtenMessages, slackRows, exceptFlatten>>

(***************************************************************************)
(* The uploader that deletes the documents of the same name and creates    *)
(* the new one: uploadCsvToDify (part_002), uploadOrUpdateCsvToDify        *)
(* (part_013).  One file name and one knowledge base are followed.         *)
(***************************************************************************)
MaxDocs == 2         \* documents of the name before the first upload
MaxUploads == 2      \* calls of the uploader in one run

UploadIdle ==
    /\ uploadPc = "start"
    /\ documents = {}
    /\ nextDoc = MaxDocs + 1
    /\ uploads = 0
    /\ existingDocs = <<>>
    /\ existedBefore = {}
    /\ difyRequests = <<>>

Request(op, doc) == [op |-> op, doc |-> doc]

\* a set as a sequence, in the order of the ids
RECURSIVE AsSequence(_)
AsSequence(S) ==
    IF S = {} THEN <<>>
    ELSE LET d == CHOOSE x \in S : \A y \in S : x <= y
         IN  <<d>> \o AsSequence(S \ {d})

\* the knowledge base as the run finds it
KnowledgeBase(docs) ==
    /\ uploadPc = "start"
    /\ documents' = docs
    /\ uploadPc' = "idle"
    /\ UNCHANGED <<nextDoc, uploads, existingDocs, existedBefore, difyRequests, exceptUpload>>

\* uploadCsvToDify(csvString, knowledgeBaseId, fileName) is called:
\* findDocumentsInDify sends its GET
UploadCalled ==
    /\ uploadPc = "idle"
    /\ uploads < MaxUploads
    /\ uploads' = uploads + 1
    /\ existedBefore' = documents
    /\ difyRequests' = <<Request("list", 0)>>
    /\ uploadPc' = "find"
    /\ UNCHANGED <<documents, nextDoc, existingDocs, exceptUpload>>

\* response.data.data.filter(doc => doc.name === exactFileName)
found(docs) == AsSequence(docs)

\* what findDocumentsInDify returns when its request fails: return []
notFound(docs) == <<>>

\* the loop over existingDocs sends the next DELETE, or, when none is left,
\* createDocumentInDify sends its POST
Deleted == {i \in DOMAIN difyRequests : difyRequests[i].op = "delete"}

NextRequest(docs) ==
    IF Cardinality(Deleted) = Len(docs)
    THEN /\ difyRequests' = Append(difyRequests, Request("create", nextDoc))
         /\ uploadPc' = "create"
    ELSE /\ difyRequests' = Append(difyRequests,
                                   Request("delete", docs[Cardinality(Deleted) + 1]))
         /\ uploadPc' = "delete"

AfterFind(docs) ==
    /\ existingDocs' = docs
    /\ NextRequest(docs)

FindReturns ==
    /\ uploadPc = "find"
    /\ AfterFind(found(documents))
    /\ UNCHANGED <<documents, nextDoc, uploads, existedBefore, exceptUpload>>

\* catch (error) { ...; return []; }
FindFails ==
    /\ uploadPc = "find"
    /\ AfterFind(notFound(documents))
    /\ UNCHANGED <<documents, nextDoc, uploads, existedBefore, exceptUpload>>

\* await deleteDocumentFromDify(...) settles, with true or with false
DeleteSettles(ok) ==
    /\ uploadPc = "delete"
    /\ documents' = IF ok THEN documents \ {existingDocs[Cardinality(Deleted)]}
                          ELSE documents
    /\ NextRequest(existingDocs)
    /\ UNCHANGED <<nextDoc, uploads, existingDocs, existedBefore, exceptUpload>>

\* createDocumentInDify settles: the document exists, or the error is thrown
CreateSettles(ok) ==
    /\ uploadPc = "create"
    /\ documents' = IF ok THEN documents \cup {nextDoc} ELSE documents
    /\ nextDoc' = IF ok THEN nextDoc + 1 ELSE nextDoc
    /\ uploadPc' = "idle"
    /\ UNCHANGED <<uploads, existingDocs, existedBefore, difyRequests, exceptUpload>>

(***************************************************************************)
(* splitMessage(text, maxBytes = 3900) of part_003 over a text of 10,000   *)
(* UTF-8 bytes, followed char by char.  Only the UTF-8 length of each char *)
(* matters to the number of chunks, so a char is given by that length.     *)
(***************************************************************************)
TextBytes == 10000           \* UTF-8 length of the texts that are split
defaultMaxBytes == 3900      \* the default of the parameter maxBytes
\* the UTF-8 lengths a code point can have (a lone surrogate is written as 3)
Utf8Lengths == 1 .. 4

ScanIdle ==
    /\ scanPc = "loop"
    /\ scannedBytes = 0
    /\ scanBufferBytes = 0
    /\ scanResult = 0
    /\ scanKinds = {}

\* const charBytes = Buffer.byteLength(char, 'utf8')
charBytes(len) == len

\* the body of for (const char of text), for a char of the given UTF-8 length
ScanChar(len) ==
    /\ scanPc = "loop"
    /\ scannedBytes + len <= TextBytes
    /\ scannedBytes' = scannedBytes + len
    /\ scanKinds' = scanKinds \cup {len}
    /\ LET full == scanBufferBytes + charBytes(len) > defaultMaxBytes
       IN  /\ scanResult' = IF full THEN scanResult + 1 ELSE scanResult
           /\ scanBufferBytes' = (IF full THEN 0 ELSE scanBufferBytes) + charBytes(len)
    /\ UNCHANGED <<scanPc, exceptScan>>

pushedAtEnd_never(bufferBytes) == 0

\* if (buffer) result.push(buffer): the chunks added after the loop
pushedAtEnd(bufferBytes) == IF bufferBytes > 0 THEN 1 ELSE 0

\* the text is exhausted: return result
ScanReturns ==
    /\ scanPc = "loop"
    /\ scannedBytes = TextBytes
    /\ scanResult' = scanResult + pushedAtEnd(scanBufferBytes)
    /\ scanPc' = "returned"
    /\ UNCHANGED <<scannedBytes, scanBufferBytes, scanKinds, exceptScan>>

(***************************************************************************)
(* The start of a script: the check of the environment at module level and *)
(* the block run when the script is the main program.  dify_uploader is    *)
(* part_013, notionDB_get is 1_notionDB-get.js, notion_list is the second  *)
(* script of part_004.                                                     *)
(***************************************************************************)
MaxArgs == 2         \* most command line arguments given
MaxRequests == 2     \* most requests followed after the start

Scripts == {"dify_uploader", "notionDB_get", "notion_list"}

\* the variables the script reads from process.env and uses in its requests
usedVars(script) ==
    CASE script = "dify_uploader" -> {"DIFY_API_KEY", "DIFY_API_URL"}
      [] script = "notionDB_get" -> {"NOTION_API_KEY"}
      [] script = "notion_list" -> {"NOTION_API_KEY", "NOTION_DATABASE_ID"}

\* the variables the check at module level tests
checkedVars(script) ==
    CASE script = "dify_uploader" -> {"DIFY_API_KEY"}
      [] script = "notionDB_get" -> {"NOTION_API_KEY"}
      [] script = "notion_list" -> {"NOTION_API_KEY", "NOTION_DATABASE_ID"}

\* the arguments the main block asks for
neededArgs(script) ==
    CASE script = "dify_uploader" -> 2
      [] script = "notionDB_get" -> 1
      [] script = "notion_list" -> 0

StartIdle ==
    /\ startScript = "none"
    /\ startPc = "launch"
    /\ environment = {}
    /\ asMain = FALSE
    /\ argv = 0
    /\ apiRequests = 0

\* node <script> ..., or require('<script>') from another program
Launch(script, env, main, args) ==
    /\ startPc = "launch"
    /\ startScript' = script
    /\ environment' = env
    /\ asMain' = main
    /\ argv' = args
    /\ startPc' = "check"
    /\ UNCHANGED <<apiRequests, exceptStart>>

\* what follows console.error when a checked variable is missing
afterFailedCheck(script, main) ==
    CASE script = "dify_uploader" -> "exited"
      [] script = "notionDB_get" -> IF main THEN "exited" ELSE "thrown"
      [] script = "notion_list" -> IF main THEN "loaded" ELSE "thrown"

\* if (!NOTION_API_KEY ...) { console.error(...); ... }
EnvironmentChecked ==
    /\ startPc = "check"
    /\ startPc' = IF checkedVars(startScript) \subseteq environment
                  THEN "loaded"
                  ELSE afterFailedCheck(startScript, asMain)
    /\ UNCHANGED <<startScript, environment, asMain, argv, apiRequests, exceptStart>>

\* if (require.main === module) { ... }: the arguments are tested, main starts
MainBlock ==
    /\ startPc = "loaded"
    /\ startPc' = IF ~asMain THEN "required"
                  ELSE IF argv < neededArgs(startScript) THEN "exited"
                  ELSE "main"
    /\ UNCHANGED <<startScript, environment, asMain, argv, apiRequests, exceptStart>>

\* main sends a request: axios.get / notion.databases.query
RequestSent ==
    /\ startPc = "main"
    /\ apiRequests < MaxRequests
    /\ apiRequests' = apiRequests + 1
    /\ UNCHANGED <<startScript, startPc, environment, asMain, argv, exceptStart>>

\* main ends
MainEnds ==
    /\ startPc = "main"
    /\ apiRequests > 0
    /\ startPc' = "exited"
    /\ UNCHANGED <<startScript, environment, asMain, argv, apiRequests, exceptStart>>

(***************************************************************************)
(* callDifyChatApi of ops-bot and of part_003 together with the poll of    *)
(* the parent thread that runs beside it: checkParentDeleted from a        *)
(* setTimeout chain (ops-bot) or from setInterval (part_003).              *)
(***************************************************************************)
MaxChunks == 2       \* most chunks of one streamed response

PollVariants == {"ops_bot", "part_003"}

PollIdle ==
    /\ pollVariant = "none"
    /\ callPc = "idle"
    /\ parentDeleted = FALSE
    /\ threadGone = FALSE
    /\ pollInFlight = FALSE
    /\ pollTimer = "none"
    /\ chunksLeft = 0
    /\ partsLeft = 0
    /\ detected = FALSE
    /\ postedAfterDetection = FALSE
    /\ polledAfterReturn = FALSE

\* where the function goes next: its position, whether it issues a
\* chat.postMessage or chat.update on the way, the parts left after that
Goes(pc, post, parts) == [pc |-> pc, post |-> post, parts |-> parts]

\* finally { if (parentCheckTimeout) clearTimeout(parentCheckTimeout); }
finallyBlock == Goes("done", FALSE, 0)

\* catch (error): ops-bot updates the placeholder unless parentDeleted,
\* part_003 posts the apology to the thread
catchBlock(v, deleted) ==
    IF v = "ops_bot" /\ deleted THEN finallyBlock ELSE Goes("apology", TRUE, 0)

\* for (let i = 1; i < messages.length; i++): part_003 tests parentDeleted
\* before each part, ops-bot does not
nextPart(v, deleted, parts) ==
    IF parts > 0 /\ (v = "ops_bot" \/ ~deleted)
    THEN Goes("part", TRUE, parts - 1)
    ELSE finallyBlock

\* after the loop over the stream, for an answer of n parts: ops-bot deletes
\* the placeholder when parentDeleted; part_003 skips the final update
afterStream(v, deleted, n) ==
    IF ~deleted THEN Goes("final_update", TRUE, n - 1)
    ELSE IF v = "ops_bot" THEN Goes("delete", FALSE, 0)
    ELSE nextPart(v, deleted, n - 1)

\* the step of callDifyChatApi that leaves the flag as deleted and the
\* history as seen
Step(goes, deleted, seen) ==
    /\ callPc' = goes.pc
    /\ partsLeft' = goes.parts
    /\ parentDeleted' = deleted
    /\ detected' = seen
    /\ postedAfterDetection' = (postedAfterDetection \/ (goes.post /\ seen))
    /\ pollTimer' = IF goes.pc = "done" THEN "none" ELSE pollTimer

\* what conversations.replies can answer
PollAnswers == IF threadGone THEN {"empty", "thread_not_found", "error"}
                             ELSE {"present", "error"}
\* what checkParentDeleted makes of the answer
deletedBy(v, answer) ==
    IF v = "ops_bot" THEN answer \in {"empty", "thread_not_found"}
                     ELSE answer = "empty"
\* what chat.update / chat.postMessage can answer
SlackAnswers == IF threadGone THEN {"ok", "thread_not_found", "error"}
                              ELSE {"ok", "error"}

\* a user deletes the parent message
ThreadDeleted ==
    /\ callPc # "idle"
    /\ ~threadGone
    /\ threadGone' = TRUE
    /\ UNCHANGED <<pollVariant, callPc, parentDeleted, pollInFlight, pollTimer,
                   chunksLeft, partsLeft, detected, postedAfterDetection,
                   polledAfterReturn, exceptPoll>>

\* callDifyChatApi is called and the placeholder is posted: ops-bot awaits a
\* first checkParentDeleted, part_003 starts the interval and the request
CallStarts(v) ==
    /\ callPc = "idle"
    /\ pollVariant' = v
    /\ callPc' = IF v = "ops_bot" THEN "first_check" ELSE "fetch"
    /\ pollTimer' = IF v = "ops_bot" THEN "none" ELSE "armed"
    /\ UNCHANGED <<parentDeleted, threadGone, pollInFlight, chunksLeft, partsLeft,
                   detected, postedAfterDetection, polledAfterReturn, exceptPoll>>

\* ops-bot: await checkParentDeleted() returns; checkPeriodically() is called
\* and sends the next conversations.replies at once
FirstCheckSettles(answer) ==
    /\ callPc = "first_check"
    /\ answer \in PollAnswers
    /\ IF deletedBy(pollVariant, answer)
       THEN /\ Step(Goes("delete", FALSE, 0), TRUE, TRUE)
            /\ UNCHANGED pollInFlight
       ELSE /\ Step(Goes("fetch", FALSE, 0), FALSE, detected)
            /\ pollInFlight' = TRUE
    /\ UNCHANGED <<pollVariant, threadGone, chunksLeft, polledAfterReturn, exceptPoll>>

\* the chat API answers: the stream of n chunks starts, or the error is thrown
FetchSettles(ok, n) ==
    /\ callPc = "fetch"
    /\ IF ok THEN /\ Step(Goes("stream", FALSE, 0), parentDeleted, detected)
                  /\ chunksLeft' = n
             ELSE /\ Step(catchBlock(pollVariant, parentDeleted), parentDeleted, detected)
                  /\ UNCHANGED chunksLeft
    /\ UNCHANGED <<pollVariant, threadGone, pollInFlight, polledAfterReturn, exceptPoll>>

\* for await (const chunk of response.body): the flag is tested first, then
\* the chunk is read and, when update, the interim chat.update is issued
StreamChunk(update, n) ==
    /\ callPc = "stream"
    /\ chunksLeft > 0
    /\ IF parentDeleted
       THEN /\ Step(IF pollVariant = "ops_bot"
                    THEN afterStream(pollVariant, TRUE, n)
                    ELSE catchBlock(pollVariant, TRUE), parentDeleted, detected)
            /\ UNCHANGED chunksLeft
       ELSE /\ Step(IF update THEN Goes("interim", TRUE, 0) ELSE Goes("stream", FALSE, 0),
                    parentDeleted, detected)
            /\ chunksLeft' = chunksLeft - 1
    /\ UNCHANGED <<pollVariant, threadGone, pollInFlight, polledAfterReturn, exceptPoll>>

\* the interim chat.update settles
InterimSettles(answer) ==
    /\ callPc = "interim"
    /\ answer \in SlackAnswers
    /\ CASE answer = "ok" -> Step(Goes("stream", FALSE, 0), parentDeleted, detected)
         [] answer = "thread_not_found" /\ pollVariant = "ops_bot" ->
                Step(afterStream(pollVariant, TRUE, 1), TRUE, TRUE)
         [] OTHER -> Step(catchBlock(pollVariant, parentDeleted), parentDeleted, detected)
    /\ UNCHANGED <<pollVariant, threadGone, pollInFlight, chunksLeft,
                   polledAfterReturn, exceptPoll>>

\* the stream has ended; the answer has n parts
StreamOver(n) ==
    /\ callPc = "stream"
    /\ chunksLeft = 0
    /\ Step(afterStream(pollVariant, parentDeleted, n), parentDeleted, detected)
    /\ UNCHANGED <<pollVariant, threadGone, pollInFlight, chunksLeft,
                   polledAfterReturn, exceptPoll>>

\* the final chat.update, or the chat.postMessage of a later part, settles
PostSettles(answer) ==
    /\ callPc \in {"final_update", "part"}
    /\ answer \in SlackAnswers
    /\ CASE answer = "ok" ->
                Step(nextPart(pollVariant, parentDeleted, partsLeft), parentDeleted, detected)
         [] answer = "thread_not_found" /\ pollVariant = "ops_bot" ->
                Step(finallyBlock, parentDeleted, TRUE)
         [] OTHER -> Step(catchBlock(pollVariant, parentDeleted), parentDeleted, detected)
    /\ UNCHANGED <<pollVariant, threadGone, pollInFlight, chunksLeft,
                   polledAfterReturn, exceptPoll>>

\* chat.delete of the placeholder, or the apology, settles: the function ends
LastCallSettles ==
    /\ callPc \in {"delete", "apology"}
    /\ Step(finallyBlock, parentDeleted, detected)
    /\ UNCHANGED <<pollVariant, threadGone, pollInFlight, chunksLeft,
                   polledAfterReturn, exceptPoll>>

\* the timeout (ops-bot) or the interval (part_003) expires:
\* checkParentDeleted sends conversations.replies
PollTimerFires ==
    /\ pollTimer = "armed"
    /\ ~pollInFlight
    /\ pollInFlight' = TRUE
    /\ pollTimer' = IF pollVariant = "ops_bot" THEN "none" ELSE "armed"
    /\ polledAfterReturn' = (polledAfterReturn \/ callPc = "done")
    /\ UNCHANGED <<pollVariant, callPc, parentDeleted, threadGone, chunksLeft,
                   partsLeft, detected, postedAfterDetection, exceptPoll>>

\* conversations.replies of the poll answers; ops-bot: checkPeriodically
\* arms the next timeout unless parentDeleted
PollSettles(answer) ==
    /\ pollInFlight
    /\ callPc # "first_check"
    /\ answer \in PollAnswers
    /\ pollInFlight' = FALSE
    /\ parentDeleted' = (parentDeleted \/ deletedBy(pollVariant, answer))
    /\ detected' = (detected \/ deletedBy(pollVariant, answer))
    /\ pollTimer' = IF pollVariant # "ops_bot" THEN pollTimer
                    ELSE IF parentDeleted' THEN "none" ELSE "armed"
    /\ UNCHANGED <<pollVariant, callPc, threadGone, chunksLeft, partsLeft,
                   postedAfterDetection, polledAfterReturn, exceptPoll>>

(***************************************************************************)
(* The loop that reads the streamed response chunk by chunk: ops_dev       *)
(* (reader.read), ops-bot, slack-messages-get and part_011 (for await).    *)
(* The response is a sequence of pieces of text: each data line is the     *)
(* prefix 'data: ' in two pieces, the JSON text in two pieces, and the     *)
(* line feed.  A chunk holds any number of consecutive pieces.             *)
(***************************************************************************)
MaxEvents == 2       \* most data events in one response
MaxAnswers == 2      \* different answer fragments

Piece(kind, answer) == [kind |-> kind, answer |-> answer]
\* 'data: {"event": "message", "answer": ...}\n' for the fragment a
DataLine(a) ==
    <<Piece("da", 0), Piece("ta: ", 0), Piece("json1", a), Piece("json2", a), Piece("lf", 0)>>

RECURSIVE ResponseText(_)
ResponseText(answers) ==
    IF answers = <<>> THEN <<>> ELSE DataLine(Head(answers)) \o ResponseText(Tail(answers))

SseIdle ==
    /\ ssePc = "fetch"
    /\ sseAnswers = <<>>
    /\ sseBytes = <<>>
    /\ sseAccumulated = <<>>

\* chunk.split('\n'): the pieces between the line feeds
RECURSIVE splitLines(_, _)
splitLines(chunk, line) ==
    IF chunk = <<>> THEN <<line>>
    ELSE IF Head(chunk).kind = "lf" THEN <<line>> \o splitLines(Tail(chunk), <<>>)
    ELSE splitLines(Tail(chunk), Append(line, Head(chunk)))

\* line.startsWith('data: ')
startsWithData(line) ==
    Len(line) >= 2 /\ line[1].kind = "da" /\ line[2].kind = "ta: "

\* JSON.parse(line.substring(6)) succeeds: the text is one whole object
parses(line) ==
    /\ Len(line) = 4
    /\ line[3].kind = "json1"
    /\ line[4].kind = "json2"
    /\ line[3].answer = line[4].answer

\* what the lines of one chunk add to fullAnswer; a line that is not a data
\* line or does not parse is passed over
RECURSIVE answersOf(_)
answersOf(lines) ==
    IF lines = <<>> THEN <<>>
    ELSE (IF startsWithData(Head(lines)) /\ parses(Head(lines))
          THEN <<Head(lines)[3].answer>> ELSE <<>>) \o answersOf(Tail(lines))

\* the server answers with the data events of the given answer fields
SseResponse(answers) ==
    /\ ssePc = "fetch"
    /\ sseAnswers' = answers
    /\ sseBytes' = ResponseText(answers)
    /\ ssePc' = "reading"
    /\ UNCHANGED <<sseAccumulated, exceptSse>>

\* for await (const chunk of response.body): a chunk of n pieces arrives
SseChunk(n) ==
    /\ ssePc = "reading"
    /\ n <= Len(sseBytes)
    /\ sseAccumulated' =
           sseAccumulated \o answersOf(splitLines(SubSeq(sseBytes, 1, n), <<>>))
    /\ sseBytes' = SubSeq(sseBytes, n + 1, Len(sseBytes))
    /\ UNCHANGED <<ssePc, sseAnswers, exceptSse>>

\* the response has ended
SseEnd ==
    /\ ssePc = "reading"
    /\ sseBytes = <<>>
    /\ ssePc' = "ended"
    /\ UNCHANGED <<sseAnswers, sseBytes, sseAccumulated, exceptSse>>

(***************************************************************************)
(* The export of a channel: the pages of conversations.history are         *)
(* written one after the other, then the replies of every thread are       *)
(* fetched by tasks of which pLimit(3) runs at most three at a time        *)
(* (slack-to-difyKnowledge/1_slack-message-get.js).  The loop over the     *)
(* messages of one response has no await: it is one step.                  *)
(***************************************************************************)
MaxThreads == 4        \* threads whose replies are fetched
MaxExportTs == 2       \* different ts in the channel
MaxPageSize == 1       \* most page in one response
MaxHistoryPages == 1   \* most pages of conversations.history
MaxReplyPages == 2     \* most pages of conversations.replies in one export
concurrency == 3       \* pLimit(3)

ExportThreads == 1 .. MaxThreads
\* a message of a response: its ts, or WithoutText for a message without text,
\* whose ts is never read
WithoutText == 0
ExportedMessages == {WithoutText} \cup (1 .. MaxExportTs)
ResponsePages == SeqsUpTo(ExportedMessages, MaxPageSize)

ExportIdle ==
    /\ exportPc = "start"
    /\ historyPages = 0
    /\ writtenTs = {}
    /\ csvRows = <<>>
    /\ replyFetcher = [th \in ExportThreads |-> "queued"]
    /\ replyPages = 0
    /\ historyRows = 0
    /\ returnedAgain = FALSE

\* writtenMessages.has(msg.ts), with the Set never consulted
alreadyWritten_never(written, ts) == FALSE

\* writtenMessages.has(msg.ts)
alreadyWritten(written, ts) == ts \in written

\* for (const msg of data.messages): a message without text or with a ts
\* already written is passed over, the others are written and recorded;
\* the result is the Set and the rows after the loop
RECURSIVE writeMessages(_, _, _)
writeMessages(page, written, rows) ==
    IF page = <<>> THEN [written |-> written, rows |-> rows]
    ELSE LET msg == Head(page)
         IN  IF msg = WithoutText \/ alreadyWritten(written, msg)
             THEN writeMessages(Tail(page), written, rows)
             ELSE writeMessages(Tail(page), written \cup {msg},
                                Append(rows, msg))

\* const writtenMessages = new Set(): the second pass over the history
\* begins
ExportBegins ==
    /\ exportPc = "start"
    /\ exportPc' = "history"
    /\ UNCHANGED <<historyPages, writtenTs, csvRows, replyFetcher, historyRows, returnedAgain, replyPages, exceptExport>>

\* a page of conversations.history arrives and its messages are written
HistoryPage(page, hasMore) ==
    /\ exportPc = "history"
    /\ historyPages < MaxHistoryPages
    /\ hasMore => historyPages + 1 < MaxHistoryPages
    /\ LET after == writeMessages(page, writtenTs, csvRows)
       IN  /\ writtenTs' = after.written
           /\ csvRows' = after.rows
    /\ historyPages' = historyPages + 1
    /\ historyRows' = Len(csvRows')
    /\ exportPc' = IF hasMore THEN "history" ELSE "replies"
    /\ UNCHANGED <<replyFetcher, returnedAgain, replyPages, exceptExport>>

\* if (!data.ok) throw: the export fails and the stream is ended
HistoryFails ==
    /\ exportPc = "history"
    /\ exportPc' = "failed"
    /\ UNCHANGED <<historyPages, writtenTs, csvRows, replyFetcher, historyRows, returnedAgain, replyPages, exceptExport>>

RunningTasks == {th \in ExportThreads : replyFetcher[th] = "running"}

\* limit(async () => ...): the task of the next thread starts when fewer
\* than three are running
ReplyStarts(th) ==
    /\ exportPc \in {"replies", "failed"}
    /\ historyPages > 0
    /\ replyFetcher[th] = "queued"
    /\ \A other \in ExportThreads : other < th => replyFetcher[other] # "queued"
    /\ Cardinality(RunningTasks) < concurrency
    /\ replyFetcher' = [replyFetcher EXCEPT ![th] = "running"]
    /\ UNCHANGED <<exportPc, historyPages, writtenTs, csvRows, historyRows, returnedAgain, replyPages, exceptExport>>

\* a page of conversations.replies arrives for a running task and its
\* messages are written; after an error of another call the stream has
\* ended and takes no row
ReplyPage(th, page, hasMore) ==
    /\ replyFetcher[th] = "running"
    /\ replyPages < MaxReplyPages
    /\ LET after == writeMessages(page, writtenTs, csvRows)
       IN  /\ writtenTs' = after.written
           /\ csvRows' = IF exportPc = "failed" THEN csvRows ELSE after.rows
    /\ returnedAgain' =
           (\/ returnedAgain
            \/ /\ Cardinality(RunningTasks) = concurrency
               /\ \E i \in DOMAIN page, k \in 1 .. historyRows :
                      page[i] = csvRows[k])
    /\ UNCHANGED historyRows
    /\ replyFetcher' = [replyFetcher EXCEPT
                           ![th] = IF hasMore THEN "running" ELSE "done"]
    /\ replyPages' = replyPages + 1
    /\ UNCHANGED <<exportPc, historyPages, exceptExport>>

\* if (!data.ok) { console.warn(...); break; }
ReplyNotOk(th) ==
    /\ replyFetcher[th] = "running"
    /\ replyFetcher' = [replyFetcher EXCEPT ![th] = "done"]
    /\ UNCHANGED <<exportPc, historyPages, writtenTs, csvRows, historyRows, returnedAgain, replyPages, exceptExport>>

\* fetchWithRateLimitRetry throws in a task: Promise.all rejects and the
\* catch block ends the stream, the other tasks go on
ReplyThrows(th) ==
    /\ replyFetcher[th] = "running"
    /\ replyFetcher' = [replyFetcher EXCEPT ![th] = "done"]
    /\ exportPc' = "failed"
    /\ UNCHANGED <<historyPages, writtenTs, csvRows, historyRows, returnedAgain, replyPages, exceptExport>>

\* await Promise.all(promises) resolves; stringifier.end()
ExportDone ==
    /\ exportPc = "replies"
    /\ \A th \in ExportThreads : replyFetcher[th] = "done"
    /\ exportPc' = "done"
    /\ UNCHANGED <<historyPages, writtenTs, csvRows, replyFetcher, historyRows, returnedAgain, replyPages, exceptExport>>

(***************************************************************************)
(* The batch pipelines: processChannels (slack-to-difyKnowledge/           *)
(* main-processor.js, part_010) and processKnowledgeTargets                *)
(* (slack-messages-knowledgeForNotion/index.js).  For every target of the  *)
(* list: the check of the required fields, then fetch, convert and upload  *)
(* inside one try block.                                                   *)
(***************************************************************************)
MaxTargets == 3        \* most targets in the list
MaxFiles == 2          \* most files convertToDifyReadyCsv splits a target into

BatchVariants == {"processChannels", "processKnowledgeTargets"}

BatchIdle ==
    /\ batchVariant = "processChannels"
    /\ batchPc = "start"
    /\ batchTargets = <<>>
    /\ batchIndex = 0
    /\ partsToUpload = 0
    /\ attempted = <<>>
    /\ failures = {}

\* the catch block of the loop body, leaving the loop
afterCatch_abort(index, count) == count + 1

\* the catch block of the loop body logs the error; the for loop goes on
\* with the next target
afterCatch(index, count) == index + 1

\* the head of the for loop at the given target: past the list the function
\* returns; a target without a required field is passed over (continue)
RECURSIVE forLoop(_, _)
forLoop(index, list) ==
    IF index > Len(list) THEN [pc |-> "done", index |-> index]
    ELSE IF ~list[index] THEN forLoop(index + 1, list)
    ELSE [pc |-> "fetch", index |-> index]

BatchAt(at) ==
    /\ batchPc' = at.pc
    /\ batchIndex' = at.index
    /\ attempted' = IF at.pc = "fetch" THEN Append(attempted, at.index) ELSE attempted

\* processChannels(channels) / processKnowledgeTargets(targets) is called
BatchCalled(v, list) ==
    /\ batchPc = "start"
    /\ batchVariant' = v
    /\ batchTargets' = list
    /\ BatchAt(forLoop(1, list))
    /\ UNCHANGED <<partsToUpload, failures, exceptBatch>>

\* the fetch of the target resolves
Fetched ==
    /\ batchPc = "fetch"
    /\ batchPc' = "convert"
    /\ UNCHANGED <<batchVariant, batchTargets, batchIndex, partsToUpload, attempted,
                   failures, exceptBatch>>

\* convertToDifyReadyCsv resolves: one file (processChannels) or the given
\* number of files (processKnowledgeTargets)
Converted(files) ==
    /\ batchPc = "convert"
    /\ batchVariant = "processChannels" => files = 1
    /\ partsToUpload' = files
    /\ IF files = 0
       THEN BatchAt(forLoop(batchIndex + 1, batchTargets))
       ELSE /\ batchPc' = "upload"
            /\ UNCHANGED <<batchIndex, attempted>>
    /\ UNCHANGED <<batchVariant, batchTargets, failures, exceptBatch>>

\* uploadCsvToDify resolves for one file; after the last one the iteration
\* ends
Uploaded ==
    /\ batchPc = "upload"
    /\ partsToUpload' = partsToUpload - 1
    /\ IF partsToUpload = 1
       THEN BatchAt(forLoop(batchIndex + 1, batchTargets))
       ELSE UNCHANGED <<batchPc, batchIndex, attempted>>
    /\ UNCHANGED <<batchVariant, batchTargets, failures, exceptBatch>>

\* the fetch, the conversion or an upload rejects: catch (error)
StepThrows ==
    /\ batchPc \in {"fetch", "convert", "upload"}
    /\ failures' = failures \cup {batchIndex}
    /\ partsToUpload' = 0
    /\ BatchAt(forLoop(afterCatch(batchIndex, Len(batchTargets)), batchTargets))
    /\ UNCHANGED <<batchVariant, batchTargets, exceptBatch>>

(***************************************************************************)
(* The handler of the button of a long answer, show_more_continuation      *)
(* (part_001, Coupa/test_1.js): every click posts the next part of the     *)
(* entry of pendingContinuations.  The handlers of several clicks          *)
(* interleave at their awaits.                                             *)
(***************************************************************************)
MaxRemaining == 2      \* most parts an entry holds
MaxClicks == 3         \* clicks on the button

Clicks == 1 .. MaxClicks

MoreIdle ==
    /\ morePc = "start"
    /\ moreParts = 0
    /\ hasEntry = FALSE
    /\ remainingParts = <<>>
    /\ clickPc = [c \in Clicks |-> "idle"]
    /\ clickPart = [c \in Clicks |-> 0]
    /\ postCalls = <<>>
    /\ postedParts = {}
    /\ overlapped = FALSE

\* the next part read without taking it out of the array
shift_peek(parts) == [nextPart |-> Head(parts), rest |-> parts]

\* const nextPart = remainingParts.shift()
shift(parts) == [nextPart |-> Head(parts), rest |-> Tail(parts)]

\* pendingContinuations holds an entry of n remaining parts for the
\* message that carries the button (the Map is declared empty and only the
\* handler writes to it: the entry is the state the handler is written for)
EntrySet(n) ==
    /\ morePc = "start"
    /\ morePc' = "shown"
    /\ moreParts' = n
    /\ hasEntry' = TRUE
    /\ remainingParts' = [i \in 1 .. n |-> i]
    /\ UNCHANGED <<clickPc, clickPart, postCalls, postedParts, overlapped, exceptMore>>

\* a click: ack, pendingContinuations.get, and with a part left the shift
\* and the call of chat.postMessage; with none the update that takes the
\* button away
Click(c) ==
    /\ morePc = "shown"
    /\ clickPc[c] = "idle"
    /\ IF ~hasEntry \/ remainingParts = <<>>
       THEN /\ clickPc' = [clickPc EXCEPT ![c] = "clearing"]
            /\ UNCHANGED <<remainingParts, clickPart, postCalls>>
       ELSE LET taken == shift(remainingParts)
            IN  /\ remainingParts' = taken.rest
                /\ clickPart' = [clickPart EXCEPT ![c] = taken.nextPart]
                /\ postCalls' = Append(postCalls, taken.nextPart)
                /\ clickPc' = [clickPc EXCEPT ![c] = "posting"]
    /\ overlapped' = (overlapped \/ \E other \in Clicks : clickPc[other] = "posting")
    /\ UNCHANGED <<morePc, moreParts, hasEntry, postedParts, exceptMore>>

\* the update of a click that found nothing left settles: then
\* pendingContinuations.delete(messageTs); a rejection goes to the catch
ClearSettles(c, ok) ==
    /\ clickPc[c] = "clearing"
    /\ hasEntry' = IF ok THEN FALSE ELSE hasEntry
    /\ clickPc' = [clickPc EXCEPT ![c] = "done"]
    /\ UNCHANGED <<morePc, moreParts, remainingParts, clickPart, postCalls, postedParts,
                   overlapped, exceptMore>>

\* chat.postMessage of a click settles: with parts left in the array
\* pendingContinuations.set and the update of the button, with none
\* pendingContinuations.delete and the update without the button; a
\* rejection goes to the catch
MorePostSettles(c, ok) ==
    /\ clickPc[c] = "posting"
    /\ IF ok
       THEN /\ postedParts' = postedParts \cup {clickPart[c]}
            /\ hasEntry' = (Len(remainingParts) > 0)
            /\ clickPc' = [clickPc EXCEPT ![c] = "updating"]
       ELSE /\ clickPc' = [clickPc EXCEPT ![c] = "done"]
            /\ UNCHANGED <<postedParts, hasEntry>>
    /\ UNCHANGED <<morePc, moreParts, remainingParts, clickPart, postCalls, overlapped,
                   exceptMore>>

\* the chat.update after the post settles, resolved or rejected
MoreUpdateSettles(c) ==
    /\ clickPc[c] = "updating"
    /\ clickPc' = [clickPc EXCEPT ![c] = "done"]
    /\ UNCHANGED <<morePc, moreParts, hasEntry, remainingParts, clickPart, postCalls,
                   postedParts, overlapped, exceptMore>>

(***************************************************************************)
(* Specifications                                                          *)
(***************************************************************************)
\* the later parts before they are started
LaterIdle ==
    /\ ExpiryIdle
    /\ ContentIdle
    /\ FlattenIdle
    /\ UploadIdle
    /\ ScanIdle
    /\ StartIdle
    /\ PollIdle
    /\ SseIdle
    /\ ExportIdle
    /\ BatchIdle
    /\ MoreIdle

InitSplit ==
    /\ splitVariant \in {"bytes", "chars"}
    /\ text \in SeqsUpTo(Units, MaxLen)
    /\ maxBytes \in 1..MaxMax
    /\ messages = <<>>
    /\ splitPc = "input"
    /\ CsvIdle
    /\ HistIdle
    /\ BotIdle
    /\ RetryIdle
    /\ StreamIdle
    /\ DeliveryIdle
    /\ LaterIdle

NextSplit == CallSplitMessage \/ CallSplitMessageApp

SpecSplit == InitSplit /\ [][NextSplit]_vars

InitCsv ==
    /\ csvVariant \in {"dify", "notion"}
    /\ transformedData \in SeqsUpTo(1..MaxRowBytes, MaxRows)
    /\ ceiling \in (headerByteSize + 1)..MaxCeiling
    /\ csvParts = <<>>
    /\ csvPc = "input"
    /\ SplitIdle
    /\ HistIdle
    /\ BotIdle
    /\ RetryIdle
    /\ StreamIdle
    /\ DeliveryIdle
    /\ LaterIdle

NextCsv == CallConvert \/ CallProcessCsvFile

SpecCsv == InitCsv /\ [][NextCsv]_vars

InitHist ==
    /\ HistIdle
    /\ SplitIdle
    /\ CsvIdle
    /\ BotIdle
    /\ RetryIdle
    /\ StreamIdle
    /\ DeliveryIdle
    /\ LaterIdle

InitBots ==
    /\ BotStart
    /\ bot \in Bots
    /\ SplitIdle
    /\ CsvIdle
    /\ HistIdle
    /\ RetryIdle
    /\ StreamIdle
    /\ DeliveryIdle
    /\ LaterIdle

NextBots == NextOpsDev \/ NextOpsBot \/ NextOperator \/ NextMso

SpecBots == InitBots /\ [][NextBots]_vars

NextHist == \E u \in Users, c \in CONSULTATION_CATEGORIES : UpdateCategory(u, c)

SpecHist == InitHist /\ [][NextHist]_vars

InitRetry ==
    /\ retryPc = "fetch"
    /\ attempt = 0
    /\ fetches = 1
    /\ responses = <<>>
    /\ slept = <<>>
    /\ SplitIdle
    /\ CsvIdle
    /\ HistIdle
    /\ BotIdle
    /\ StreamIdle
    /\ DeliveryIdle
    /\ LaterIdle

NextRetry ==
    \/ \E status \in Statuses, header \in RetryAfterHeaders : FetchResolves(status, header)
    \/ FetchRejects
    \/ SleepDone

\* fetch settles and timers fire
SpecRetry == InitRetry /\ [][NextRetry]_vars /\ WF_vars(NextRetry)

InitStream ==
    /\ streamVariant \in StreamVariants
    /\ streamInput \in SeqsUpTo(StreamLines, MaxLines)
    /\ streamStatus \in {"ok", "error"}
    /\ streamPc = "fetch"
    /\ streamRead = 0
    /\ answerBuffer = <<>>
    /\ streamConversation = 0
    /\ now = 0
    /\ lastUpdateTime = 0
    /\ lastUpdateText = NoText
    /\ streamParentDeleted = FALSE
    /\ errorHandled \in (IF streamVariant = "ops_dev" THEN BOOLEAN ELSE {FALSE})
    /\ postMessagePromise = "none"
    /\ slackInitialSent = FALSE
    /\ inflight = {}
    /\ slackCalls = <<>>
    /\ slackFailed = FALSE
    /\ display = IF streamVariant = "operator" THEN NoText ELSE Text("placeholder", <<>>)
    /\ SplitIdle
    /\ CsvIdle
    /\ HistIdle
    /\ BotIdle
    /\ RetryIdle
    /\ DeliveryIdle
    /\ LaterIdle

NextStream ==
    \/ Tick
    \/ StreamFetched
    \/ StreamBreaks
    \/ DevLine
    \/ DevEnd
    \/ BotLine
    \/ BotChunkEnd
    \/ BotPollFindsDeleted
    \/ BotEnd
    \/ OpEvent
    \/ OpPostSettles
    \/ \E k \in inflight : OpUpdateApplied(k)
    \/ OpStreamEnds
    \/ OpFinal

SpecStream == InitStream /\ [][NextStream]_vars

InitDelivery ==
    /\ deliveryVariant \in DeliveryVariants
    /\ deliveryPc = IF deliveryVariant = "slack_messages_get" THEN "streaming" ELSE "first"
    /\ chatRequests = <<"streaming">>
    /\ streamResult = "none"
    /\ partCount \in (IF deliveryVariant = "slack_messages_get" THEN {0} ELSE 1..MaxParts)
    /\ partIndex = 0
    /\ pendingMessage = Shown("placeholder", 0)
    /\ threadMessages = <<>>
    /\ postFailed = FALSE
    /\ SplitIdle
    /\ CsvIdle
    /\ HistIdle
    /\ BotIdle
    /\ RetryIdle
    /\ StreamIdle
    /\ LaterIdle

NextDelivery ==
    \/ \E result \in {"ok", "error", "broken"} : AttemptStreamingReturns(result)
    \/ SummarisingShown
    \/ \E result \in {"answer", "empty", "error"}, n \in 1..MaxParts :
          FetchFinalAnswerReturns(result, n)
    \/ PendingDeleted
    \/ FirstPartUpdated
    \/ PartPosted
    \/ PartRetried

SpecDelivery == InitDelivery /\ [][NextDelivery]_vars

InitExpiry ==
    /\ ExpiryIdle
    /\ SplitIdle
    /\ CsvIdle
    /\ HistIdle
    /\ BotIdle
    /\ RetryIdle
    /\ StreamIdle
    /\ DeliveryIdle
    /\ LaterIdle

NextExpiry ==
    \/ ClockTick
    \/ Sweep
    \/ \E t \in Threads : ExpiryMention(t)
    \/ \E t \in Threads, id \in {0} \cup ConversationIds : ExpiryResponse(t, id)
    \/ \E t \in Threads : ExpiryRequestFails(t)
    \/ \E t \in Threads : ExpirySaid(t)

SpecExpiry == InitExpiry /\ [][NextExpiry]_vars

\* every later specification starts from the idle state of all the parts
InitContent ==
    /\ SplitIdle
    /\ CsvIdle
    /\ HistIdle
    /\ BotIdle
    /\ RetryIdle
    /\ StreamIdle
    /\ DeliveryIdle
    /\ LaterIdle

NextContent ==
    \/ \E p \in PageIds : TopLevelPage(p)
    \/ PageRecorded
    \/ NoPages
    \/ TextBlock
    \/ \E p \in PageIds : ChildPage(p)
    \/ ChildDatabase
    \/ \E p \in PageIds : DbEntry(p)
    \/ DbEnd
    \/ ContentReturned

\* every await of the function settles: the Notion API answers
SpecContent == InitContent /\ [][NextContent]_vars /\ WF_vars(NextContent)

NextFlatten ==
    \/ \E msg \in SlackMessages : ExportMessage(msg)
    \/ ExportEnds
    \/ \E v \in FlattenVariants : ConvertRows(v)

SpecFlatten == InitContent /\ [][NextFlatten]_vars

NextUpload ==
    \/ \E docs \in SUBSET (1 .. MaxDocs) : KnowledgeBase(docs)
    \/ UploadCalled
    \/ FindReturns
    \/ FindFails
    \/ \E ok \in BOOLEAN : DeleteSettles(ok)
    \/ \E ok \in BOOLEAN : CreateSettles(ok)

SpecUpload == InitContent /\ [][NextUpload]_vars

NextScan ==
    \/ \E len \in Utf8Lengths : ScanChar(len)
    \/ ScanReturns

SpecScan == InitContent /\ [][NextScan]_vars

NextStart ==
    \/ \E script \in Scripts, main \in BOOLEAN, args \in 0 .. MaxArgs :
          \E env \in SUBSET usedVars(script) : Launch(script, env, main, args)
    \/ EnvironmentChecked
    \/ MainBlock
    \/ RequestSent
    \/ MainEnds

SpecStart == InitContent /\ [][NextStart]_vars

NextPoll ==
    \/ ThreadDeleted
    \/ \E v \in PollVariants : CallStarts(v)
    \/ \E answer \in {"present", "empty", "thread_not_found", "error"} :
          FirstCheckSettles(answer)
    \/ \E ok \in BOOLEAN, n \in 0 .. MaxChunks : FetchSettles(ok, n)
    \/ \E update \in BOOLEAN, n \in 1 .. MaxParts : StreamChunk(update, n)
    \/ \E answer \in {"ok", "thread_not_found", "error"} : InterimSettles(answer)
    \/ \E n \in 1 .. MaxParts : StreamOver(n)
    \/ \E answer \in {"ok", "thread_not_found", "error"} : PostSettles(answer)
    \/ LastCallSettles
    \/ PollTimerFires
    \/ \E answer \in {"present", "empty", "thread_not_found", "error"} :
          PollSettles(answer)

SpecPoll == InitContent /\ [][NextPoll]_vars

PiecesPerLine == Len(DataLine(1))

NextSse ==
    \/ \E n \in 1 .. MaxEvents : \E answers \in [1 .. n -> 1 .. MaxAnswers] :
          SseResponse(answers)
    \/ \E n \in 1 .. MaxEvents * PiecesPerLine : SseChunk(n)
    \/ SseEnd

SpecSse == InitContent /\ [][NextSse]_vars

NextExport ==
    \/ ExportBegins
    \/ \E page \in ResponsePages, hasMore \in BOOLEAN : HistoryPage(page, hasMore)
    \/ HistoryFails
    \/ \E th \in ExportThreads : ReplyStarts(th)
    \/ \E th \in ExportThreads, page \in ResponsePages, hasMore \in BOOLEAN :
          ReplyPage(th, page, hasMore)
    \/ \E th \in ExportThreads : ReplyNotOk(th)
    \/ \E th \in ExportThreads : ReplyThrows(th)
    \/ ExportDone

SpecExport == InitContent /\ [][NextExport]_vars

NextBatch ==
    \/ \E v \in BatchVariants, list \in SeqsUpTo(BOOLEAN, MaxTargets) \ {<<>>} :
          BatchCalled(v, list)
    \/ Fetched
    \/ \E files \in 0 .. MaxFiles : Converted(files)
    \/ Uploaded
    \/ StepThrows

SpecBatch == InitContent /\ [][NextBatch]_vars

NextMore ==
    \/ \E n \in 1 .. MaxRemaining : EntrySet(n)
    \/ \E c \in Clicks : Click(c)
    \/ \E c \in Clicks, ok \in BOOLEAN : ClearSettles(c, ok)
    \/ \E c \in Clicks, ok \in BOOLEAN : MorePostSettles(c, ok)
    \/ \E c \in Clicks : MoreUpdateSettles(c)

SpecMore == InitContent /\ [][NextMore]_vars

(***************************************************************************)
(* Properties of the bots                                                  *)
(***************************************************************************)
\* C1 (as stated): when a delivery finds the key of its event in the guard,
\* that delivery and the one that put the key there make exactly one chat
\* API request together.
DuplicateExactlyOneRequest ==
    \A d \in Deliveries :
        (dupOf[d] # 0 /\ Finished(d) /\ Finished(dupOf[d]))
            => difyCalls[dupOf[d]] + difyCalls[d] = 1

\* C1: the delivery that finds the key of its event in the guard makes no
\* chat API request and the one that put the key there makes at most one;
\* it made exactly one if its placeholder was posted and not deleted again
\* (the parent thread was not found deleted).
DuplicateAtMostOneRequest ==
    \A d \in Deliveries :
        dupOf[d] # 0 =>
            /\ difyCalls[d] = 0
            /\ difyCalls[dupOf[d]] <= 1
            /\ (Finished(dupOf[d]) /\ task[dupOf[d]].placeholder = "posted")
                   => difyCalls[dupOf[d]] = 1

DuplicateSuppressedWitness ==
    \E d \in Deliveries :
        /\ dupOf[d] # 0
        /\ task[d].pc = "skipped"
        /\ task[dupOf[d]].pc = "returned"
        /\ task[dupOf[d]].received # 0
        /\ difyCalls[dupOf[d]] + difyCalls[d] = 1

\* the deliveries whose handler is app.message and has seen its text
Routed == {d \in Deliveries : Finished(d) /\ task[d].route # "none"}

\* C11: a handled mention whose text without the mention is the ambiguous
\* word "soudan" has posted the Block Kit form and has sent no request to
\* the chat API.
VagueMentionPostsForm ==
    \A d \in Routed :
        EVENT[task[d].ev].text = "soudan"
            => task[d].form = 1 /\ difyCalls[d] = 0

\* C12: a handled mention whose text without the mention is concrete has
\* posted no Block Kit form and has sent exactly one request to the chat
\* API (unless it was suppressed as a duplicate or its placeholder could
\* not be posted).
ConcreteMentionOneRequest ==
    \A d \in Routed :
        (/\ EVENT[task[d].ev].text # ""
         /\ EVENT[task[d].ev].text \notin vaguePatterns
         /\ task[d].pc # "skipped"
         /\ task[d].placeholder # "failed")
            => task[d].form = 0 /\ difyCalls[d] = 1

\* the conversation keys of the running bot and what its map holds for one
ConversationKeys == IF bot = "ops_dev" THEN Users ELSE Threads
ConversationKey(e) == IF bot = "ops_dev" THEN EVENT[e].user ELSE EVENT[e].thread
StoredConversation(k) ==
    CASE bot = "ops_dev" -> userConversations[k]
      [] bot = "ops_bot" -> conversationStore[k]
      [] bot = "operator" -> conversationMap[k]
      [] OTHER -> convMap[k]

\* the handlers that work on key k
HandlersOf(k) ==
    {d \in Deliveries : task[d].pc # "idle" /\ ConversationKey(task[d].ev) = k}

\* C2: once the handlers of a conversation key have finished, the map holds
\* for that key the id received by the handler that wrote last, whatever
\* the other handlers received.
LastWriterWins ==
    \A k \in ConversationKeys :
        (\A d \in HandlersOf(k) : Finished(d))
            => StoredConversation(k) =
                   IF lastWriter[k] = 0 THEN 0 ELSE task[lastWriter[k]].received

\* two handlers of one user of ops_dev finished, each got a conversation of
\* its own (so both read the map before either wrote), one of the two ids
\* is lost
LostUpdateWitness ==
    \E u \in Users : \E d1, d2 \in HandlersOf(u) :
        /\ bot = "ops_dev"
        /\ \A d \in HandlersOf(u) : Finished(d)
        /\ task[d1].received # 0
        /\ task[d2].received # 0
        /\ task[d1].received # task[d2].received
        /\ lastWriter[u] = d2
        /\ userConversations[u] = task[d2].received

\* the step with which handler d of ops-bot, operator or mso completes a
\* successful exchange: the step of its store
ExchangeCompletes(d) ==
    \/ bot = "ops_bot" /\ task[d].pc = "streaming" /\ task'[d].pc = "final"
    \/ bot = "operator" /\ task[d].pc = "final" /\ task'[d].pc = "returned"
    \/ bot = "mso" /\ task[d].pc = "fetch" /\ task'[d].pc = "say"

\* C3 (as stated): after a successful exchange that returned id X for
\* thread K the map of the bot holds X for K, whatever it held before.
ExchangeOverwrites ==
    [][\A d \in Deliveries :
          (ExchangeCompletes(d) /\ task'[d].received # 0) =>
              LET K == EVENT[task[d].ev].thread
                  X == task'[d].received
              IN /\ bot = "ops_bot" => conversationStore'[K] = X
                 /\ bot = "operator" => conversationMap'[K] = X
                 /\ bot = "mso" => convMap'[K] = X]_vars

\* C3: after a successful exchange that returned id X for thread K,
\* ops-bot and mso hold X for K whatever they held before; operator holds
\* X only if it held nothing for K and otherwise keeps what it held.
ExchangeStores ==
    [][\A d \in Deliveries :
          (ExchangeCompletes(d) /\ task'[d].received # 0) =>
              LET K == EVENT[task[d].ev].thread
                  X == task'[d].received
              IN /\ bot = "ops_bot" => conversationStore'[K] = X
                 /\ bot = "operator" =>
                        conversationMap'[K] =
                            IF conversationMap[K] # 0 THEN conversationMap[K] ELSE X
                 /\ bot = "mso" => convMap'[K] = X]_vars

\* ops-bot has overwritten the id of one handler with the id of another
ExchangeStoresWitness ==
    \E d1, d2 \in Deliveries :
        /\ bot = "ops_bot"
        /\ d1 # d2
        /\ task[d1].pc = "returned" /\ task[d1].received # 0
        /\ task[d2].pc = "returned" /\ task[d2].received # 0
        /\ EVENT[task[d1].ev].thread = EVENT[task[d2].ev].thread
        /\ task[d1].received # task[d2].received
        /\ lastWriter[EVENT[task[d2].ev].thread] = d2
        /\ conversationStore[EVENT[task[d2].ev].thread] = task[d2].received

\* C21 (as stated): every key in a guard set with timers has had its
\* timer pending since it was inserted.
GuardKeyHasTimer ==
    \A e \in Events :
        /\ deduplicationKey(e) \in processedEventIds => e \in guardTimers
        /\ userKey(e) \in errorHandledMessages => errorTimers[e] > 0

\* C21: every key of processedEventIds (ops-bot) has had its 60 s timer
\* pending since it was inserted; a key of errorHandledMessages (ops_dev)
\* has a 30 s timer pending once the handler that inserted it has left
\* its catch block, whose finally block starts the timer.
GuardKeyExpires ==
    \A e \in Events :
        /\ deduplicationKey(e) \in processedEventIds => e \in guardTimers
        /\ userKey(e) \in errorHandledMessages =>
              \/ errorTimers[e] > 0
              \/ \E d \in Deliveries : task[d].ev = e /\ task[d].pc = "apology"

GuardKeyExpiresWitness ==
    \E e \in Events, d \in Deliveries :
        /\ userKey(e) \in errorHandledMessages
        /\ errorTimers[e] = 0
        /\ task[d].ev = e
        /\ task[d].pc = "apology"

\* C30: a key in processingUsers belongs to a handler that is still
\* running and will remove it in its finally block.
ProcessingKeyRemoved ==
    \A e \in Events :
        userKey(e) \in processingUsers =>
            \E d \in Deliveries : task[d].ev = e /\ task[d].pc \notin Terminal \cup {"idle"}

(***************************************************************************)
(* Properties of the splitters, the chunkers and the category history     *)
(***************************************************************************)
Indices(n) == [i \in 1..n |-> i]

\* C4: concatenating the chunks returned by a message splitter, in order,
\* gives back the input string
SplitConcatenation ==
    splitPc = "done" => Flatten(messages) = text

SplitConcatenationWitness ==
    /\ splitPc = "done"
    /\ Len(messages) >= 3
    /\ \E i \in 1..Len(text) : text[i] = "hi"

\* C5 as stated: every chunk of every splitter is at most the configured
\* maximum in UTF-8 bytes
SplitChunkWithinMax ==
    splitPc = "done" =>
        \A i \in 1..Len(messages) : byteLength(messages[i]) <= maxBytes

LongestChar(str) ==
    LET cps == CodePoints(str)
    IN IF cps = <<>> THEN 0 ELSE Max({CharBytes(cps[i]) : i \in 1..Len(cps)})

\* C5 amended: the byte splitter keeps every chunk within the maximum when
\* the maximum is at least the size of the longest character of the input;
\* the length splitter bounds the chunk by maxLength + 1 code units, that
\* is by 3 * (maxLength + 1) bytes
SplitChunkBound ==
    splitPc = "done" =>
        /\ (splitVariant = "bytes" /\ LongestChar(text) <= maxBytes) =>
               \A i \in 1..Len(messages) : byteLength(messages[i]) <= maxBytes
        /\ splitVariant = "chars" =>
               \A i \in 1..Len(messages) :
                   /\ Len(messages[i]) <= maxBytes + 1
                   /\ byteLength(messages[i]) <= 3 * (maxBytes + 1)

SplitChunkBoundWitness ==
    /\ splitPc = "done"
    /\ splitVariant = "bytes"
    /\ LongestChar(text) = 4
    /\ maxBytes = 4
    /\ Len(messages) >= 2
    /\ \E i \in 1..Len(messages) : byteLength(messages[i]) = maxBytes

\* C6: the parts of a chunker hold every input row exactly once, in order
CsvRowsExactlyOnce ==
    csvPc = "done" => Flatten(csvParts) = Indices(Len(transformedData))

CsvRowsExactlyOnceWitness ==
    /\ csvPc = "done"
    /\ Len(csvParts) >= 2
    /\ \E p \in 1..Len(csvParts) : Len(csvParts[p]) >= 2

\* C7: no part, serialized as its header line and its rows, is larger than
\* MAX_BYTES_PER_FILE
CsvPartWithinCeiling ==
    csvPc = "done" =>
        \A p \in 1..Len(csvParts) : PartBytes(csvParts[p]) <= ceiling

\* C8: after the updates A, B, A, C, D the history is [A, C, D]
HistoryAfterABACD ==
    \A u \in Users :
        applied[u] = <<"FP&A", "Accounting", "FP&A", "Legal", "IT">> =>
            userCategoryHistory[u] = <<"FP&A", "Legal", "IT">>

\* C9: the category of the last update is the last element of the history
HistoryMostRecentLast ==
    \A u \in Users :
        applied[u] # <<>> =>
            /\ userCategoryHistory[u] # <<>>
            /\ userCategoryHistory[u][Len(userCategoryHistory[u])]
                   = applied[u][Len(applied[u])]

\* C10: every stored history has at most 3 labels and no label twice
HistoryBoundedDistinct ==
    \A u \in Users :
        /\ Len(userCategoryHistory[u]) <= 3
        /\ \A i, j \in 1..Len(userCategoryHistory[u]) :
               userCategoryHistory[u][i] = userCategoryHistory[u][j] => i = j

HistoryBoundedDistinctWitness ==
    \E u \in Users :
        /\ Len(applied[u]) = 5
        /\ Len(userCategoryHistory[u]) = 3
        /\ \E i, j \in 1..5 : i # j /\ applied[u][i] = applied[u][j]
        /\ userCategoryHistory[u][1] # applied[u][1]

(***************************************************************************)
(* Properties of fetchWithRateLimitRetry                                   *)
(***************************************************************************)
RetrySafe ==
    /\ fetches <= 5
    /\ retryPc = "returned" =>
           /\ responses[Len(responses)].status # 429
           /\ \A i \in 1..(Len(responses) - 1) : responses[i].status = 429
    /\ (retryPc = "thrown" /\ Len(responses) = fetches) =>
           /\ fetches = 5
           /\ \A i \in 1..5 : responses[i].status = 429

\* C19: a call sends at most 5 requests, returns the first response that
\* is not a 429, throws after the fifth 429 without a sixth request, and
\* always ends.
RetryFiveAttempts == []RetrySafe /\ <>(retryPc \in {"returned", "thrown"})

RetryFiveAttemptsWitness ==
    /\ retryPc = "thrown"
    /\ fetches = 5
    /\ Len(responses) = 5

Interims == {k \in 1..Len(slackCalls) : slackCalls[k].kind = "interim"}

\* C13: when the stream has ended without error, the handler has ended and
\* no Slack call was rejected, the answer message shows the text of the
\* final update: the whole accumulated answer, or the fallback text.
FinalUpdateAppliedLast ==
    (/\ streamPc = "done"
     /\ streamStatus = "ok"
     /\ ~slackFailed
     /\ ~streamParentDeleted
     /\ display # NoText)
        => display = finalText(streamVariant, answerBuffer)

\* C14: every interim update is issued at least the update interval of
\* the program after the interim update before it, or for a fragment with
\* a sentence-end character.
InterimUpdateThrottled ==
    \A k \in Interims :
        \/ slackCalls[k].boundary
        \/ \A j \in Interims :
              j < k => slackCalls[k].at - slackCalls[j].at >= updateInterval(streamVariant)

\* C16: when the chat API answered with a status outside 2xx, the handler
\* has ended and no Slack call was rejected, the answer message shows a
\* generic text without error detail.
ApiErrorShowsApology ==
    (streamStatus = "error" /\ streamPc \in {"done", "unhandled"} /\ ~slackFailed)
        => /\ streamPc = "done"
           /\ display.kind \in {"apology", "no_response"}

\* the lines whose answer the program appends
AnswerLines(v, input) ==
    LET bearing == {i \in 1..Len(input) :
                      \/ input[i].kind = "message"
                      \/ /\ input[i].kind = "noevent"
                         /\ v = "ops_dev" =>
                              \A j \in 1..(i - 1) : input[j].kind \notin {"message", "noevent"}}
        F[i \in 0..Len(input)] ==
            IF i = 0 THEN <<>>
            ELSE IF i \in bearing THEN Append(F[i - 1], i) ELSE F[i - 1]
    IN F[Len(input)]

ParseErrorStep ==
    /\ streamPc = "streaming"
    /\ streamRead < Len(streamInput)
    /\ streamInput[streamRead + 1].kind = "bad"
    /\ streamRead' # streamRead

\* C18: a line that JSON.parse rejects is skipped: taking it changes
\* neither the answer buffer nor the recorded conversation id, issues no
\* Slack call and shows nothing, and the loop goes on with the next line,
\* so that at the end of the stream the buffer holds the answer of every
\* other line.
ParseErrorSkipped ==
    /\ [][ParseErrorStep =>
            /\ answerBuffer' = answerBuffer
            /\ streamConversation' = streamConversation
            /\ slackCalls' = slackCalls
            /\ display' = display
            /\ streamRead' = streamRead + 1
            /\ streamPc' \in {"streaming", "chunk_end"}]_vars
    /\ []((/\ streamPc = "done"
           /\ streamStatus = "ok"
           /\ ~slackFailed
           /\ ~streamParentDeleted)
              => /\ streamRead = Len(streamInput)
                 /\ answerBuffer = AnswerLines(streamVariant, streamInput))

ParseErrorSkippedWitness ==
    /\ streamPc = "done"
    /\ streamStatus = "ok"
    /\ Len(streamInput) = 3
    /\ streamInput[1].kind = "message"
    /\ streamInput[2].kind = "bad"
    /\ streamInput[3].kind = "message"
    /\ answerBuffer = <<1, 3>>
    /\ streamConversation = 1

(***************************************************************************)
(* Properties of the answer sent in parts                                  *)
(***************************************************************************)
\* the indices of the parts posted to the thread, in the order posted
PostedParts ==
    LET F[i \in 0..Len(threadMessages)] ==
            IF i = 0 THEN <<>>
            ELSE IF threadMessages[i].kind = "part"
                 THEN Append(F[i - 1], threadMessages[i].index) ELSE F[i - 1]
    IN F[Len(threadMessages)]

FromTo(a, b) == [i \in 1..(b - a + 1) |-> a + i - 1]

\* C15 (as stated): when an answer of n > 1 parts has been sent and no
\* Slack call was rejected, the placeholder shows part 1 and parts 2..n
\* were posted after it in order, once each.
PartsAfterPlaceholder ==
    (deliveryPc = "done" /\ partCount > 1 /\ ~postFailed)
        => /\ pendingMessage = Shown("part", 1)
           /\ PostedParts = FromTo(2, partCount)

\* C15: the parts posted to the thread are consecutive and in increasing
\* order, no part twice; when an answer of n > 1 parts has been sent and
\* no Slack call was rejected, ops-bot and sendLongMessage show part 1 in
\* the placeholder and have posted parts 2..n, slack-messages-get has
\* deleted the placeholder and posted parts 1..n.
PartsInOrderOnce ==
    /\ \A i \in 1..(Len(PostedParts) - 1) : PostedParts[i + 1] = PostedParts[i] + 1
    /\ PostedParts # <<>> =>
          PostedParts[1] = IF deliveryVariant = "slack_messages_get" THEN 1 ELSE 2
    /\ (deliveryPc = "done" /\ partCount > 1 /\ ~postFailed) =>
          IF deliveryVariant = "slack_messages_get"
          THEN /\ pendingMessage = Shown("deleted", 0)
               /\ PostedParts = FromTo(1, partCount)
          ELSE /\ pendingMessage = Shown("part", 1)
               /\ PostedParts = FromTo(2, partCount)

PartsInOrderOnceWitness ==
    /\ deliveryPc = "done"
    /\ partCount = 3
    /\ ~postFailed
    /\ deliveryVariant = "ops_bot"
    /\ pendingMessage = Shown("part", 1)
    /\ PostedParts = <<2, 3>>

\* C17: at most one request is sent to the chat API for one event.
AtMostOneChatRequest == Len(chatRequests) <= 1

(***************************************************************************)
(* Properties of the expiring conversation map                             *)
(***************************************************************************)
\* C22: an entry of the map is removed by no step of a handler; a step
\* that removes an entry is a run of the sweep, taken when more than one
\* hour has passed since the entry was written last.
EntryRemovedOnlyByExpiry ==
    [][\A t \in Threads :
          (expiringConvMap[t] # NoEntry /\ expiringConvMap'[t] = NoEntry)
              => /\ sweepsDue' = sweepsDue - 1
                 /\ mentionPc' = mentionPc
                 /\ clock - expiringConvMap[t].updatedAt > oneHour]_vars

EntryRemovedOnlyByExpiryWitness ==
    \E r \in removedLog :
        /\ r.age = oneHour + 1
        /\ expiringConvMap[r.thread_ts] = NoEntry

(***************************************************************************)
(* Properties of getContentRecursively                                     *)
(***************************************************************************)
ListedOnce == \A p \in PageIds : listings[p] <= 1

\* C23: whatever the pages and databases link to, cycles included, the
\* recursion over the pages of the database comes to its end, and within one
\* top-level page the children of an id are listed at most once.
ContentTerminates == []ListedOnce /\ <>(contentPc = "done")

\* a call met an id already visited and the run has ended
ContentTerminatesWitness ==
    /\ contentPc = "done"
    /\ skipped
    /\ Cardinality(visited) = MaxPages

(***************************************************************************)
(* Properties of the flattening of Slack rows                              *)
(***************************************************************************)
\* the rows the claim calls replies and parents
ReplyRows == {j \in DOMAIN slackRows :
                 slackRows[j].thread_ts # 0 /\ slackRows[j].thread_ts # slackRows[j].ts}
ParentRows == DOMAIN slackRows \ ReplyRows
\* the output records whose child_text holds the text of row j
RecordsWith(j) ==
    {i \in DOMAIN flattened :
        \E k \in DOMAIN flattened[i].child_text :
            flattened[i].child_text[k] = [line |-> "text", of |-> slackRows[j].text]}

\* C24 (as stated): after the conversion every reply row has its text in the
\* child_text of exactly one record, the record of the parent row whose
\* timestamp is the thread_ts of the reply, and every parent row has exactly
\* one record.
RepliesUnderTheirParent ==
    flattenPc = "converted" =>
        /\ \A j \in ReplyRows :
              /\ Cardinality(RecordsWith(j)) = 1
              /\ \A i \in RecordsWith(j) : flattened[i].parent_text = slackRows[j].thread_ts
        /\ Len(flattened) = Cardinality(ParentRows)
        /\ \A j \in ParentRows :
              Cardinality({i \in DOMAIN flattened : flattened[i].parent_text = slackRows[j].text}) = 1

(***************************************************************************)
(* Properties of the delete-then-create uploader                           *)
(***************************************************************************)
Issued(op) == {i \in DOMAIN difyRequests : difyRequests[i].op = op}

\* C25 (as stated): a create is issued only after a delete has been issued
\* for every document that had the file name when the uploader was called.
CreateAfterEveryDelete ==
    \A c \in Issued("create") :
        \A d \in existedBefore :
            \E i \in Issued("delete") : i < c /\ difyRequests[i].doc = d

(***************************************************************************)
(* Properties of splitMessage over a long text                             *)
(***************************************************************************)
\* C26: a text of exactly 10,000 UTF-8 bytes is split, with the limit of
\* 3,900 bytes, into exactly 3 chunks, whatever the UTF-8 lengths of its
\* chars.
ThreeChunks == scanPc = "returned" => scanResult = 3

\* a text with chars of all four lengths has been split
ThreeChunksWitness ==
    /\ scanPc = "returned"
    /\ scannedBytes = TextBytes
    /\ scanKinds = Utf8Lengths

(***************************************************************************)
(* Properties of the start of a script                                     *)
(***************************************************************************)
\* C27 (as stated): a script started as the main program with a variable it
\* needs missing sends no request; it exits at the check.
ExitsWithoutRequest ==
    (asMain /\ ~(usedVars(startScript) \subseteq environment)) =>
        /\ apiRequests = 0
        /\ startPc \in {"launch", "check", "exited"}

(***************************************************************************)
(* Properties of callDifyChatApi and its poll                              *)
(***************************************************************************)
\* C28 (as stated): once the function has detected that the parent thread is
\* deleted, by the poll or by a thread_not_found error, it issues no further
\* chat.postMessage or chat.update, the apology included.
NoPostAfterDetection == ~postedAfterDetection

\* C29 (as stated): once callDifyChatApi has returned, no poll of the parent
\* thread is scheduled and none is sent, even if one was in flight when the
\* function returned.
NoPollAfterReturn ==
    callPc = "done" => pollTimer = "none" /\ ~polledAfterReturn

(***************************************************************************)
(* Properties of the placeholder of a submitted form (ops_dev)             *)
(***************************************************************************)
\* C31 (as stated): the placeholder a handler has posted is in the end
\* updated to the answer or to the apology; so no handler ends as a skipped
\* duplicate, which issues no update, after it has posted its placeholder.
PlaceholderResolved ==
    \A d \in Deliveries :
        (task[d].pc = "skipped" /\ EVENT[task[d].ev].kind = "submit")
            => task[d].placeholder # "posted"

(***************************************************************************)
(* Properties of the read loop of the streamed response                    *)
(***************************************************************************)
\* C32 (as stated): when the stream has ended the accumulated answer is the
\* answer fields of the data events the server sent, in order, however the
\* response was divided into chunks.
AccumulatedIsSent == ssePc = "ended" => sseAccumulated = sseAnswers

(***************************************************************************)
(* Properties of the knowledge base after an upload                        *)
(***************************************************************************)
\* C33 (as stated): when uploadCsvToDify returns successfully (its create
\* request succeeded) the knowledge base holds exactly one document of the
\* file name, whatever the lookup and the deletes before it did.
OneDocumentAfterUpload ==
    [][(uploadPc = "create" /\ uploadPc' = "idle" /\ documents' # documents)
          => Cardinality(documents') = 1]_vars

(***************************************************************************)
(* Properties of the answer message of the operator bot                    *)
(***************************************************************************)
AnswerPosts == {k \in DOMAIN slackCalls : slackCalls[k].op = "post"}

\* C34: the operator bot creates at most one answer message with
\* chat.postMessage for a mention, however many fragments arrive while the
\* first post is in flight, and exactly one when the handler has ended and
\* every Slack call succeeded.
OneAnswerPost ==
    streamVariant = "operator" =>
        /\ Cardinality(AnswerPosts) <= 1
        /\ (streamPc = "done" /\ ~slackFailed) => Cardinality(AnswerPosts) = 1

\* the first post is in flight and a fragment has arrived since it was
\* sent
OneAnswerPostWitness ==
    /\ streamVariant = "operator"
    /\ postMessagePromise = "pending"
    /\ \E k \in AnswerPosts :
          /\ slackCalls[k].kind = "initial"
          /\ Len(answerBuffer) > Len(slackCalls[k].text.frags)

(***************************************************************************)
(* Properties of the rows of the export                                    *)
(***************************************************************************)
\* C35: every ts is written to the CSV at most once, also when the history
\* and the replies both return it and while three tasks fetch replies at
\* the same time.
TsWrittenOnce ==
    \A t \in 1 .. MaxExportTs :
        Cardinality({i \in DOMAIN csvRows : csvRows[i] = t}) <= 1

\* while three tasks were running the replies have returned a ts that the
\* pass over the history wrote, and a task has written a row of its own
TsWrittenOnceWitness ==
    /\ returnedAgain
    /\ Len(csvRows) > historyRows

(***************************************************************************)
(* Properties of the batch pipelines                                       *)
(***************************************************************************)
\* the targets of the list that have every required field, in list order
RECURSIVE CompleteTargets(_, _)
CompleteTargets(list, index) ==
    IF index > Len(list) THEN <<>>
    ELSE (IF list[index] THEN <<index>> ELSE <<>>) \o CompleteTargets(list, index + 1)

\* C36: a failure at one target does not keep a later target from being
\* processed: when the batch has ended, the targets attempted are the
\* targets with every required field, each once and in list order; and at
\* every moment the targets attempted are the first of these.
EveryTargetAttempted ==
    LET complete == CompleteTargets(batchTargets, 1)
    IN  /\ Len(attempted) <= Len(complete)
        /\ attempted = SubSeq(complete, 1, Len(attempted))
        /\ batchPc = "done" => attempted = complete

\* the batch has ended, a target failed and a later one was attempted
EveryTargetAttemptedWitness ==
    /\ batchPc = "done"
    /\ \E i \in failures : \E k \in DOMAIN attempted : attempted[k] > i
    /\ \E i \in DOMAIN batchTargets : ~batchTargets[i]

(***************************************************************************)
(* Properties of the chunks of the length-based splitMessage               *)
(***************************************************************************)
\* C37 (as stated): every chunk that splitMessage(text, maxLength) of the
\* hybrid bot returns has at most maxLength characters, for every text and
\* every maxLength >= 1.
CharChunkWithinMaxLength ==
    (splitPc = "done" /\ splitVariant = "chars" /\ maxBytes >= 1) =>
        \A i \in 1 .. Len(messages) : Len(messages[i]) <= maxBytes

(***************************************************************************)
(* Properties of the parts shown by the button                             *)
(***************************************************************************)
PostCallsOf(p) == Cardinality({i \in DOMAIN postCalls : postCalls[i] = p})

====
